---- MODULE Spec2Model ----
(***************************************************************************)
(* Model of the password-manager bot's Membership Provisioning Engine:     *)
(* the session caches (OAuth token, admin cookies), the vault REST client  *)
(* operations built on them, and the chat commands that drive them.        *)
(*                                                                         *)
(* Strings that the code inspects with includes() are sequences of words;  *)
(* Includes is the contiguous-subsequence test.  HTTP statuses are the     *)
(* strings "200", "401", ...; "none" is an axios error with no response.   *)
(* Time is in milliseconds, as Date.now() gives it.                        *)
(***************************************************************************)
EXTENDS Integers, Sequences, FiniteSets, TLC

VARIABLES
  flavour,        \* which revision of services/bitwarden is loaded: "oauth" | "admin"
  configured,     \* config.bitwarden.adminToken is set
  now,            \* Date.now()
  cachedToken,    \* bitwarden.ts:18
  tokenExpiry,    \* bitwarden.ts:19
  adminCookies,   \* notion.ts:143
  cookieExpiry,   \* notion.ts:144
  vault,          \* the vault's members: email -> "none" | "-1" | "0" | "1" | "2"
  directory,      \* the team directory: email -> it has an entry
  team,           \* the team directory: email -> the entry's Team property
  profile,        \* the vault's user records: email -> dates, enabled, password
  call,           \* per caller: the client operation in progress
  cmd,            \* per caller: the chat command in progress
  handler         \* which revision of bot/client is loaded: "guarded" | "unguarded"

vars == <<flavour, configured, now, cachedToken, tokenExpiry, adminCookies,
          cookieExpiry, vault, directory, team, profile, call, cmd, handler>>

\* What is fixed when the process starts.
setup == <<flavour, configured, directory, team, profile, handler>>

cacheVars == <<cachedToken, tokenExpiry, adminCookies, cookieExpiry>>

----------------------------------------------------------------------------
(* Bounds *)

\* The clock advances at most MaxTicks times.
MaxTicks == 4

----------------------------------------------------------------------------
(* Data *)

Callers == {"A", "B"}

Emails == {"ada@example.com"}

\* The accounts the vault may hold, in the order /admin/users lists them;
\* the commands are only ever given the addresses of Emails.
ListOrder == <<"ada@example.com", "bob@example.com", "cy@example.com">>
Accounts == {ListOrder[i] : i \in 1..Len(ListOrder)}

\* The vaults in which the accounts outside Emails do not exist.
InVault(statuses) ==
  {[e \in Accounts |-> IF e \in Emails THEN f[e] ELSE "none"] : f \in [Emails -> statuses]}

\* One clock step: half a minute for the OAuth token (whose margin is one
\* minute), nine minutes for the admin cookies (kept eighteen minutes).
TickMs == IF flavour = "oauth" THEN 30000 ELSE 540000

\* expires_in values (seconds) the token endpoint may declare.
ExpiresIn == {30, 90, 120}

\* notion.ts:150 "admin session lasts 20 minutes by default"
AdminSessionSeconds == 20 * 60

\* bitwarden.ts:48 "Expire 1 minute early for safety"
SafetyMarginMs == 60000

\* notion.ts:187 "Expire 2 minutes early for safety": 20 minutes less 2
CookieLifetimeMs == 18 * 60 * 1000

NoCred == [at |-> -1, ttl |-> 0, by |-> "-"]

\* error.response.data.message values of a failed request
NoMessage == <<>>
Messages == { NoMessage,
              <<"User", "already", "exists">>,
              <<"User", "already", "invited">>,
              <<"Email", "already", "registered">>,
              <<"Invalid", "email">> }

Includes(s, sub) ==
  \E i \in 1..(Len(s) - Len(sub) + 1) : SubSeq(s, i, i + Len(sub) - 1) = sub

\* Failed responses to a request: an HTTP status with the body's message, or
\* an axios error without a response ("none": error.response is undefined).
Failures ==
  { [status |-> "400", message |-> m] : m \in Messages } \cup
  { [status |-> "401", message |-> NoMessage],
    [status |-> "403", message |-> NoMessage],
    [status |-> "409", message |-> <<"Conflict">>],
    [status |-> "429", message |-> NoMessage],
    [status |-> "500", message |-> <<"Internal", "error">>],
    [status |-> "none", message |-> NoMessage] }

NoError == [status |-> "-", message |-> NoMessage]

\* No chat command in progress.
NoCommand ==
  [ name |-> "none", pc |-> "idle", email |-> "-", targetUser |-> FALSE,
    lookup |-> "-", found |-> FALSE, existing |-> "-", memberId |-> <<>>, reinvite |-> <<>>,
    carried |-> <<>>, key |-> "-", pending |-> {}, at |-> 0,
    deferred |-> "-", allUsers |-> {},
    result |-> [totalUsers |-> 0, activeUsers |-> 0, inactiveUsers |-> 0,
                deleted |-> 0, errors |-> <<>>],
    events |-> <<>>, replies |-> <<>> ]

\* Dates of the vault's user records are kept in minutes; Date.now() is a
\* whole number of them at every clock step.
MinuteMs == 60000
DayMinutes == 24 * 60

NoDate == [known |-> FALSE, at |-> 0]
DaysAgo(d) == [known |-> TRUE, at |-> 0 - d * DayMinutes]

\* A user record of /admin/users: CreatedAt, LastActive, UserEnabled
\* (absent unless the account was disabled) and PasswordHash.
Profiles ==
  [ createdAt : {NoDate, DaysAgo(10), DaysAgo(7), DaysAgo(1)},
    lastActive : {NoDate, DaysAgo(95), DaysAgo(90), DaysAgo(31), DaysAgo(1)},
    userEnabled : {"true", "false", "absent"},
    passwordHash : {"absent", "empty", "set"},
    datesValid : {TRUE} ]

\* An account created today, active, with its password set.
FreshProfile ==
  [ createdAt |-> DaysAgo(0), lastActive |-> DaysAgo(0),
    userEnabled |-> "true", passwordHash |-> "set", datesValid |-> TRUE ]

Idle ==
  [ op |-> "none", pc |-> "idle", arg |-> "-", cred |-> NoCred, hit |-> FALSE,
    calledAt |-> 0, authOutcome |-> "-", authThrew |-> FALSE, idx |-> 0,
    first |-> "-", lastErr |-> NoError, sent |-> <<>>, threw |-> FALSE,
    success |-> FALSE, error |-> <<>>, collections |-> <<>>,
    listing |-> [e \in Accounts |-> "none"], continuationToken |-> FALSE ]

----------------------------------------------------------------------------
(* Session Cache: getBitwardenToken (OAuth) and getAdminCookies (admin) *)

\* bitwarden.ts:24  cachedToken && Date.now() < tokenExpiry
TokenValid ==
  cachedToken # NoCred /\ now < tokenExpiry

\* Mutant: the expiry is stored without the safety margin.
TokenExpiryNoMargin(t, e) ==
  t + e * 1000

\* bitwarden.ts:48  Date.now() + expires_in * 1000 - 60000
TokenExpiryOf(t, e) ==
  t + e * 1000 - SafetyMarginMs

\* notion.ts:151  adminCookies.length > 0 && Date.now() < cookieExpiry
CookiesValid ==
  Len(adminCookies) > 0 /\ now < cookieExpiry

\* notion.ts:187, 199  Date.now() + 18 * 60 * 1000
CookieExpiryOf(t) ==
  t + CookieLifetimeMs

CacheValid ==
  IF flavour = "oauth" THEN TokenValid ELSE CookiesValid

CachedCred ==
  IF flavour = "oauth" THEN cachedToken ELSE adminCookies[1]

\* Outcomes of the authentication exchange.
\*   oauth: "ok" (2xx with a token), "http_error", "transport"
\*   admin: "cookies" (status < 400 with Set-Cookie), "no_cookies" (status < 400
\*          without), "redirect_cookies" / "redirect_no_cookies" (a 302 that
\*          axios raised), "http_error", "transport"
AuthOutcomes ==
  IF flavour = "oauth"
    THEN {"ok", "http_error", "transport"}
    ELSE {"cookies", "no_cookies", "redirect_cookies", "redirect_no_cookies",
          "http_error", "transport"}

\* notion.ts:181-190 (cookies received) and 195-202 (302 with cookies);
\* bitwarden.ts:47-51
AuthSucceeds(outcome) ==
  outcome \in {"ok", "cookies", "redirect_cookies"}

\* Mutant: the Set-Cookie list is stored before it is checked for emptiness.
CookiesStoredBeforeCheck(outcome, old, fresh) ==
  IF outcome \in {"cookies", "redirect_cookies"} THEN <<fresh>>
  ELSE IF outcome \in {"no_cookies", "redirect_no_cookies"} THEN <<>>
  ELSE old

\* The cookie cache after an exchange: stored only once the Set-Cookie list
\* is known to be non-empty (notion.ts:181-187, 197-199); every failing path
\* leaves it (notion.ts:192-214).
CookiesAfterExchange(outcome, old, fresh) ==
  IF AuthSucceeds(outcome) THEN <<fresh>> ELSE old

\* Mutant: a token already in the cache is kept.
TokenKeptIfPresent(outcome, old, fresh) ==
  IF AuthSucceeds(outcome) /\ old = NoCred THEN fresh ELSE old

\* The token cache after an exchange (bitwarden.ts:47 against 53-64).
TokenAfterExchange(outcome, old, fresh) ==
  IF AuthSucceeds(outcome) THEN fresh ELSE old

----------------------------------------------------------------------------
(* Membership Client *)

Ops ==
  IF flavour = "oauth" THEN {"invite", "list", "confirm"}
                       ELSE {"invite", "list", "delete"}

\* The endpoints an operation tries, in order.
\*   oauth invite  bitwarden.ts:85-91     oauth list  bitwarden.ts:182-186
\*   oauth confirm bitwarden.ts:226       admin invite notion.ts:241
\*   admin list    notion.ts:308          admin delete notion.ts:336
Endpoints(fl, op) ==
  IF fl = "oauth"
    THEN CASE op = "invite" ->
                <<"/api/public/members", "/public/members",
                  "/api/organizations/{orgId}/users/invite", "/api/members",
                  "/api/invite">>
           [] op = "list" ->
                <<"/api/public/members", "/public/members", "/api/members">>
           [] OTHER -> <<"/api/public/members/{id}/confirm">>
    ELSE CASE op = "invite" -> <<"/admin/invite">>
           [] op = "list" -> <<"/admin/users">>
           [] OTHER -> <<"/admin/users/{id}/delete">>

\* Mutant: the vault applies every request.
VaultAcceptsAnything(op, e) ==
  TRUE

\* The vault applies a request only in a state that allows it.
VaultAccepts(op, e) ==
  CASE op = "invite" -> vault[e] = "none"
    [] op = "delete" -> vault[e] # "none"
    [] op = "confirm" -> vault[e] = "1"
    [] OTHER -> TRUE

VaultAfter(op, e) ==
  CASE op = "invite" -> [vault EXCEPT ![e] = "0"]
    [] op = "delete" -> [vault EXCEPT ![e] = "none"]
    [] op = "confirm" -> [vault EXCEPT ![e] = "2"]
    [] OTHER -> vault

\* The collections the invite request carries: the admin payload is
\* { email } alone (notion.ts:233-235), the OAuth payload has collections: []
\* (bitwarden.ts:78).
InviteCollections(fl, e) == <<>>

\* inviteUserToVaultwarden's catch block, notion.ts:258-296
AdminInviteError(f) ==
  IF f.status = "401"
    THEN <<"Admin", "authentication", "failed", "-", "invalid", "token", "or",
           "expired", "session">>
  ELSE IF f.status = "400"
    THEN IF Includes(f.message, <<"already">>)
           THEN <<"User", "already", "exists", "or", "is", "already", "invited">>
           ELSE <<"Invalid", "request:">> \o
                (IF f.message # NoMessage THEN f.message ELSE <<"Bad", "request">>)
  ELSE IF f.status = "409"
    THEN <<"User", "already", "exists", "in", "the", "system">>
  ELSE <<"Admin", "API", "error", "(", f.status, "):">> \o
       (IF f.message # NoMessage THEN f.message ELSE <<"Unknown", "error">>)

\* inviteUserToBitwarden's catch block, bitwarden.ts:135-173
OAuthInviteError(f) ==
  IF f.status = "400"
    THEN IF Includes(f.message, <<"already", "exists">>)
            \/ Includes(f.message, <<"already", "invited">>)
           THEN <<"User", "is", "already", "invited", "or", "exists", "in", "the",
                  "organization">>
           ELSE <<"Invalid", "request:">> \o
                (IF f.message # NoMessage THEN f.message ELSE <<"Bad", "request">>)
  ELSE IF f.status = "401"
    THEN <<"Authentication", "failed", "with", "Bitwarden", "API">>
  ELSE IF f.status = "403"
    THEN <<"Insufficient", "permissions", "to", "invite", "users">>
  ELSE IF f.status = "429"
    THEN <<"Rate", "limit", "exceeded,", "please", "try", "again", "later">>
  ELSE <<"API", "error", "(", f.status, "):">> \o
       (IF f.message # NoMessage THEN f.message ELSE <<"Unknown", "error">>)

\* notion.ts:288-289, bitwarden.ts:165-166: the error is not an axios error
NetworkError ==
  <<"Network", "or", "system", "error", "occurred">>

InviteError(fl, f) ==
  IF fl = "oauth" THEN OAuthInviteError(f) ELSE AdminInviteError(f)

----------------------------------------------------------------------------
(* The operations, step by step.  A step runs from one network suspension *)
(* point (an awaited axios call) to the next.                             *)

Requesting(c, cred, isHit) ==
  [call[c] EXCEPT !.pc = "req_wait", !.cred = cred, !.hit = isHit, !.idx = 1,
                  !.sent = <<Endpoints(flavour, call[c].op)[1]>>]

\* Mutant: the credential call sits outside the operation's try block.
OnAuthFailureUncaught(r) ==
  [r EXCEPT !.pc = "done", !.authThrew = TRUE, !.threw = TRUE]

\* What an operation makes of an error thrown by the credential call.
\*   invite: caught, result {success: false}   notion.ts:231,287-295; bitwarden.ts:70,164-172
\*   list:   logged and rethrown               notion.ts:321-324; bitwarden.ts:214-217
\*   delete, confirm: caught, returns false    notion.ts:348-358; bitwarden.ts:238-248
OnAuthFailure(r) ==
  CASE r.op = "invite" ->
         [r EXCEPT !.pc = "done", !.authThrew = TRUE, !.success = FALSE,
                   !.error = NetworkError]
    [] r.op = "list" ->
         [r EXCEPT !.pc = "done", !.authThrew = TRUE, !.threw = TRUE]
    [] OTHER ->
         [r EXCEPT !.pc = "done", !.authThrew = TRUE, !.success = FALSE]

\* The operation is called: the credential call's first lines up to its first
\* await (bitwarden.ts:22-29, notion.ts:149-163), and on a cache hit the
\* operation's first request.
StartOp(c, op, e) ==
  /\ call[c].pc = "idle"
  /\ op \in Ops
  /\ LET r == [Idle EXCEPT !.op = op, !.arg = e, !.calledAt = now,
                           !.collections = InviteCollections(flavour, e)]
     IN  call' = [call EXCEPT ![c] =
           IF CacheValid
             THEN [r EXCEPT !.pc = "req_wait", !.cred = CachedCred, !.hit = TRUE,
                            !.idx = 1, !.sent = <<Endpoints(flavour, op)[1]>>]
           ELSE IF flavour = "admin" /\ ~configured
             THEN OnAuthFailure(r)
           ELSE [r EXCEPT !.pc = "auth_wait"]]
  /\ UNCHANGED <<setup, now, cacheVars, vault>>

\* An operation called on its own (a scheduled job, a connection test).
Start(c, op, e) ==
  /\ cmd[c].pc = "idle"
  /\ StartOp(c, op, e)
  /\ UNCHANGED cmd

\* The authentication exchange answers (bitwarden.ts:45-64, notion.ts:176-214).
AuthResponse(c, outcome, e) ==
  /\ call[c].pc = "auth_wait"
  /\ outcome \in AuthOutcomes
  /\ e \in (IF flavour = "oauth" THEN ExpiresIn ELSE {AdminSessionSeconds})
  /\ LET fresh == [at |-> now, ttl |-> e, by |-> c]
     IN  /\ IF flavour = "oauth"
              THEN /\ cachedToken' = TokenAfterExchange(outcome, cachedToken, fresh)
                   /\ tokenExpiry' = IF AuthSucceeds(outcome)
                                       THEN TokenExpiryOf(now, e) ELSE tokenExpiry
                   /\ UNCHANGED <<adminCookies, cookieExpiry>>
              ELSE /\ adminCookies' = CookiesAfterExchange(outcome, adminCookies, fresh)
                   /\ cookieExpiry' = IF AuthSucceeds(outcome)
                                        THEN CookieExpiryOf(now) ELSE cookieExpiry
                   /\ UNCHANGED <<cachedToken, tokenExpiry>>
         /\ call' = [call EXCEPT ![c] =
              IF AuthSucceeds(outcome)
                THEN [Requesting(c, fresh, FALSE) EXCEPT !.authOutcome = outcome]
                ELSE [OnAuthFailure(call[c]) EXCEPT !.authOutcome = outcome]]
  /\ UNCHANGED <<setup, cmd, now, vault>>

\* A request is answered with 2xx.
\*   invite notion.ts:251-256, bitwarden.ts:111-133    list notion.ts:316-319,
\*   bitwarden.ts:201-202    delete notion.ts:345-346    confirm bitwarden.ts:235-236
ReqSuccess(c) ==
  /\ call[c].pc = "req_wait"
  /\ VaultAccepts(call[c].op, call[c].arg)
  /\ vault' = VaultAfter(call[c].op, call[c].arg)
  /\ call' = [call EXCEPT ![c] =
       [@ EXCEPT !.pc = "done", !.success = TRUE,
                 !.first = IF @ = "-" THEN "200" ELSE @,
                 !.listing = vault]]
  /\ UNCHANGED <<setup, cmd, now, cacheVars>>

\* The cookie cache after inviteUserToVaultwarden handled a failure: cleared
\* on 401 (notion.ts:271-274).
CookiesAfterInviteFailure(f, old) ==
  IF f.status = "401" THEN <<>> ELSE old

CookieExpiryAfterInviteFailure(f, old) ==
  IF f.status = "401" THEN 0 ELSE old

\* A request of the admin client fails.
\*   invite notion.ts:258-296   list notion.ts:321-324   delete notion.ts:348-358
AdminReqFailure(c, f) ==
  /\ flavour = "admin"
  /\ call[c].pc = "req_wait"
  /\ f \in Failures
  /\ LET r == [call[c] EXCEPT !.pc = "done", !.lastErr = f,
                              !.first = IF @ = "-" THEN f.status ELSE @]
     IN  CASE call[c].op = "invite" ->
                /\ call' = [call EXCEPT ![c] =
                     [r EXCEPT !.success = FALSE, !.error = AdminInviteError(f)]]
                /\ adminCookies' = CookiesAfterInviteFailure(f, adminCookies)
                /\ cookieExpiry' = CookieExpiryAfterInviteFailure(f, cookieExpiry)
           [] call[c].op = "list" ->
                /\ call' = [call EXCEPT ![c] = [r EXCEPT !.threw = TRUE]]
                /\ UNCHANGED <<adminCookies, cookieExpiry>>
           [] OTHER ->
                /\ call' = [call EXCEPT ![c] = [r EXCEPT !.success = FALSE]]
                /\ UNCHANGED <<adminCookies, cookieExpiry>>
  /\ UNCHANGED <<setup, cmd, now, cachedToken, tokenExpiry, vault>>

\* A request of the OAuth client fails: the inner catch tries the next
\* candidate endpoint (bitwarden.ts:114-120, 204-209); after the last one
\* invite throws the last error to its outer catch (123-126, 135-173) and
\* list throws (212-217); confirm returns false (238-248).
OAuthReqFailure(c, f) ==
  /\ flavour = "oauth"
  /\ call[c].pc = "req_wait"
  /\ f \in Failures
  /\ LET eps == Endpoints(flavour, call[c].op)
         r == [call[c] EXCEPT !.lastErr = f,
                              !.first = IF @ = "-" THEN f.status ELSE @]
     IN  call' = [call EXCEPT ![c] =
           IF call[c].op = "confirm"
             THEN [r EXCEPT !.pc = "done", !.success = FALSE]
           ELSE IF call[c].idx < Len(eps)
             THEN [r EXCEPT !.idx = @ + 1, !.sent = Append(@, eps[call[c].idx + 1])]
           ELSE IF call[c].op = "invite"
             THEN [r EXCEPT !.pc = "done", !.success = FALSE,
                            !.error = OAuthInviteError(f)]
           ELSE [r EXCEPT !.pc = "done", !.threw = TRUE]]
  /\ UNCHANGED <<setup, cmd, now, cacheVars, vault>>

\* The caller takes the result.
Return(c) ==
  /\ cmd[c].pc = "idle"
  /\ call[c].pc = "done"
  /\ call' = [call EXCEPT ![c] = Idle]
  /\ UNCHANGED <<setup, cmd, now, cacheVars, vault>>

\* Time passes.
Tick ==
  /\ now + TickMs <= MaxTicks * TickMs
  /\ now' = now + TickMs
  /\ UNCHANGED <<setup, cmd, cacheVars, vault, call>>

\* The invited person accepts the invitation (Invited 0 -> Accepted 1).
UserAccepts(e) ==
  /\ vault[e] = "0"
  /\ vault' = [vault EXCEPT ![e] = "1"]
  /\ UNCHANGED <<setup, cmd, now, cacheVars, call>>

Init ==
  /\ flavour \in {"oauth", "admin"}
  /\ configured \in BOOLEAN
  /\ (flavour = "oauth" => configured)
  /\ now = 0
  /\ cachedToken = NoCred
  /\ tokenExpiry = 0
  /\ adminCookies = <<>>
  /\ cookieExpiry = 0
  /\ vault \in InVault({"none", "-1", "0", "1", "2"})
  /\ directory = [e \in Emails |-> TRUE]
  /\ team = [e \in Emails |-> "Design"]
  /\ profile = [e \in Accounts |-> FreshProfile]
  /\ call = [c \in Callers |-> Idle]
  /\ cmd = [c \in Callers |-> NoCommand]
  /\ handler = "guarded"

\* One invocation at a time: caller A runs every operation against every
\* response of the vault.
Next ==
  \/ \E op \in {"invite", "list", "delete", "confirm"}, e \in Emails :
       Start("A", op, e)
  \/ \E o \in {"ok", "cookies", "no_cookies", "redirect_cookies",
                "redirect_no_cookies", "http_error", "transport"},
        e \in ExpiresIn \cup {AdminSessionSeconds} : AuthResponse("A", o, e)
  \/ ReqSuccess("A")
  \/ \E f \in Failures : AdminReqFailure("A", f)
  \/ \E f \in Failures : OAuthReqFailure("A", f)
  \/ Return("A")
  \/ Tick
  \/ \E e \in Emails : UserAccepts(e)

Spec == Init /\ [][Next]_vars

\* The members of a vault, in the order it lists them.
Members(v) == SelectSeq(ListOrder, LAMBDA e : v[e] # "none")

\* The first page of a listing that the vault cuts into pages of size n.
FirstPage(v, n) ==
  [e \in Accounts |->
     IF \E i \in 1..n : i <= Len(Members(v)) /\ Members(v)[i] = e THEN v[e] ELSE "none"]

\* The list request is answered with 2xx, a first page of n members and a
\* continuation token for the rest: the operation returns the response's
\* data as the list (bitwarden.ts:201-202, notion.ts:316-319) and sends no
\* further request.
ListResponse(c, n) ==
  /\ call[c].pc = "req_wait"
  /\ call[c].op = "list"
  /\ n \in 1..(Len(Members(vault)) - 1)
  /\ call' = [call EXCEPT ![c] =
       [@ EXCEPT !.pc = "done", !.success = TRUE,
                 !.first = IF @ = "-" THEN "200" ELSE @,
                 !.listing = FirstPage(vault, n),
                 !.continuationToken = TRUE]]
  /\ UNCHANGED <<setup, cmd, now, cacheVars, vault>>

\* A vault of up to three members that answers the list request in one
\* page or in several.
InitPages ==
  /\ flavour \in {"oauth", "admin"}
  /\ configured = TRUE
  /\ now = 0
  /\ cachedToken = NoCred
  /\ tokenExpiry = 0
  /\ adminCookies = <<>>
  /\ cookieExpiry = 0
  /\ vault \in [Accounts -> {"none", "1", "2"}]
  /\ directory = [e \in Emails |-> TRUE]
  /\ team = [e \in Emails |-> "Design"]
  /\ profile = [e \in Accounts |-> FreshProfile]
  /\ call = [c \in Callers |-> Idle]
  /\ cmd = [c \in Callers |-> NoCommand]
  /\ handler = "guarded"

NextPages ==
  \/ Start("A", "list", "-")
  \/ \E o \in {"ok", "cookies", "transport"}, e \in ExpiresIn \cup {AdminSessionSeconds} :
       AuthResponse("A", o, e)
  \/ ReqSuccess("A")
  \/ \E n \in 1..(Len(ListOrder) - 1) : ListResponse("A", n)
  \/ \E f \in {g \in Failures : g.status = "none"} : AdminReqFailure("A", f)
  \/ \E f \in {g \in Failures : g.status = "none"} : OAuthReqFailure("A", f)
  \/ Return("A")
  \/ Tick

SpecPages == InitPages /\ [][NextPages]_vars

\* Two callers of the admin client at once, each inviting: a request sent
\* with one caller's cookies may be answered after the other caller has
\* replaced the cookies in the cache.
InitStale ==
  /\ Init
  /\ flavour = "admin" /\ configured
  /\ \A e \in Accounts : vault[e] = "none"

NextStale ==
  \/ \E c \in Callers, e \in Emails : Start(c, "invite", e)
  \/ \E c \in Callers, o \in {"cookies", "transport"} :
       AuthResponse(c, o, AdminSessionSeconds)
  \/ \E c \in Callers : ReqSuccess(c)
  \/ \E c \in Callers, f \in {g \in Failures : g.status \in {"401", "none"}} :
       AdminReqFailure(c, f)
  \/ \E c \in Callers : Return(c)
  \/ Tick

SpecStale == InitStale /\ [][NextStale]_vars

\* Two callers of the client at once, each listing the members: their
\* credential calls and requests interleave at every await.
InitRefresh ==
  /\ Init
  /\ \A e \in Accounts : vault[e] = "none"

NextRefresh ==
  \/ \E c \in Callers : Start(c, "list", "-")
  \/ \E c \in Callers,
        o \in {"ok", "cookies", "no_cookies", "redirect_cookies",
               "redirect_no_cookies", "http_error", "transport"},
        e \in ExpiresIn \cup {AdminSessionSeconds} : AuthResponse(c, o, e)
  \/ \E c \in Callers : ReqSuccess(c)
  \/ \E c \in Callers, f \in {g \in Failures : g.status = "none"} :
       AdminReqFailure(c, f)
  \/ \E c \in Callers, f \in {g \in Failures : g.status = "none"} :
       OAuthReqFailure(c, f)
  \/ \E c \in Callers : Return(c)
  \/ Tick

SpecRefresh == InitRefresh /\ [][NextRefresh]_vars

----------------------------------------------------------------------------
(* How a caller classifies an invite result's error text:                  *)
(* request-vault.ts:264 error.includes('already'), :277                    *)
(* error.includes('authentication').                                       *)
ErrorCategory(text) ==
  IF Includes(text, <<"already">>) THEN "already-exists"
  ELSE IF Includes(text, <<"authentication">>) \/ Includes(text, <<"Authentication">>)
    THEN "authentication-failure"
  ELSE "generic"

----------------------------------------------------------------------------
(* Error mapping: utils/errors *)

\* What String.prototype.toLowerCase does to the words that occur here.
LowerWord(w) ==
  CASE w = "User" -> "user"
    [] w = "Invalid" -> "invalid"
    [] w = "State" -> "state"
    [] w = "Reinvite" -> "reinvite"
    [] w = "Unknown" -> "unknown"
    [] w = "Design" -> "design"
    [] w = "Projects" -> "projects"
    [] w = "Marketing" -> "marketing"
    [] OTHER -> w

ToLowerCase(m) == [i \in 1..Len(m) |-> LowerWord(m[i])]

\* String.prototype.trim: leading and trailing white space goes.
RECURSIVE Trim(_)
Trim(m) ==
  IF m = <<>> THEN <<>>
  ELSE IF Head(m) = " " THEN Trim(Tail(m))
  ELSE IF m[Len(m)] = " " THEN Trim(SubSeq(m, 1, Len(m) - 1))
  ELSE m

GenericDescription == <<"An unexpected error occurred. Contact the projects team for help.">>

MapErrorToUserMessage(errorMessage) ==
  IF Includes(ToLowerCase(errorMessage), <<"user", "in", "invalid", "state">>)
    THEN [title |-> "Account Setup Required",
          description |-> <<"You haven't created an account or accepted the invitation.">>]
  ELSE IF Trim(errorMessage) # <<>>
    THEN [title |-> "Error!", description |-> Trim(errorMessage)]
  ELSE [title |-> "Something Went Wrong", description |-> GenericDescription]

\* createErrorDescription of an Error object carrying this message.
CreateErrorDescription(message) == MapErrorToUserMessage(message).description

----------------------------------------------------------------------------
(* Provisioning Workflow: the chat commands                                *)
(*   "invite"  - /invite vault      (vault-invite.ts execute)              *)
(*   "request" - /request-vault     (request-vault.ts execute)             *)
(*   "admin"   - handleAdminRequestVault (request-vault.ts)                *)

Commands == {"invite", "request", "admin"}

\* What an operator may type as the email option.
EmailInputs == Emails \cup {"not-an-email"}

\* emailRegex.test(email): of the inputs, the ones of the shape x@y.z.
EmailRegexTest(email) == email \in Emails

\* The Team property of a directory entry ("" when the entry has none).
Teams == {"Design", "design", "Projects", "projects", "Marketing", ""}

\* The organization-wide collection every member sees.
Baseline == "All Teams"

\* The role -> collections table.
PolicyKeys == {"design", "Projects", "default"}

PolicyTable ==
  [k \in PolicyKeys |->
     CASE k = "design" -> <<"Design">>
       [] k = "Projects" -> <<"Projects", "All Teams", "Projects">>
       [] OTHER -> <<>>]

\* Exact role, then lower-cased role, then the default policy.
PolicyFor(role) ==
  IF role \in PolicyKeys THEN PolicyTable[role]
  ELSE IF LowerWord(role) \in PolicyKeys THEN PolicyTable[LowerWord(role)]
  ELSE PolicyTable["default"]

\* Deduplication by collection identity, keeping the first occurrence.
RECURSIVE Dedup(_)
Dedup(s) ==
  IF s = <<>> THEN <<>>
  ELSE LET rest == Dedup(SubSeq(s, 1, Len(s) - 1))
           last == s[Len(s)]
       IN  IF \E i \in 1..Len(rest) : rest[i] = last THEN rest ELSE Append(rest, last)

WithBaselineForgotten(resolved) == resolved

\* The baseline collection is appended unless already there.
WithBaseline(resolved) ==
  IF \E i \in 1..Len(resolved) : resolved[i] = Baseline THEN resolved
  ELSE Append(resolved, Baseline)

GetCollectionNamesForRole(role) == Dedup(WithBaseline(PolicyFor(role)))

\* userInfo.role || userInfo.team || 'default': lookupUserTeam's entries
\* carry no role (notion.ts:5-10, 46-51).
RoleKey(e) == IF team[e] # "" THEN team[e] ELSE "default"

\* A vault member has two identifiers: the organization-member id and the
\* id of the user account behind it.
MemberId(e) == <<"member", e>>
UserId(e) == <<"user", e>>

\* getUserByEmail: the member with this email, re-fetched from the vault.
GetUserByEmail(e) ==
  IF vault[e] = "none" THEN [present |-> FALSE, status |-> "none", id |-> <<>>, userId |-> <<>>]
  ELSE [present |-> TRUE, status |-> vault[e], id |-> MemberId(e), userId |-> UserId(e)]

\* reinviteUser returns a result, never raises.
ReinviteResults ==
  { [success |-> TRUE, error |-> <<>>],
    [success |-> FALSE, error |-> <<>>],
    [success |-> FALSE, error |-> <<" ">>],
    [success |-> FALSE, error |-> <<"User", "in", "Invalid", "State">>],
    [success |-> FALSE, error |-> <<"Reinvite", "failed">>] }

\* The message of the error a failed Discord reply raises.
ReplyErrorMessage == <<"Unknown", "interaction">>

\* The decision on the member found (vault-invite.ts:84-137).
ExistingUserReinvitesOnlyInvited(existing) ==
  IF ~existing.present THEN "invite"
  ELSE IF existing.status = "2" THEN "already_confirmed"
  ELSE IF existing.status = "0" THEN "reinvite"
  ELSE "invite"

ExistingUserInvitedAgain(existing) ==
  IF ~existing.present THEN "invite"
  ELSE IF existing.status = "2" THEN "already_confirmed"
  ELSE IF existing.status = "1" THEN "reinvite"
  ELSE "invite"

ExistingUserReinvitesConfirmed(existing) ==
  IF ~existing.present THEN "invite"
  ELSE IF existing.status = "-1" THEN "already_confirmed"
  ELSE IF existing.status \in {"0", "1", "2"} THEN "reinvite"
  ELSE "invite"

ExistingUserReinvitesRevoked(existing) ==
  IF ~existing.present THEN "invite"
  ELSE IF existing.status = "2" THEN "already_confirmed"
  ELSE "reinvite"

ExistingUserAction(existing) ==
  IF ~existing.present THEN "invite"
  ELSE IF existing.status = "2" THEN "already_confirmed"
  ELSE IF existing.status = "0" \/ existing.status = "1" THEN "reinvite"
  ELSE "invite"

Event(api, arg) == [api |-> api, arg |-> arg]

Embed(title, description, ok) ==
  [title |-> title, description |-> description, delivered |-> ok]

\* The title of the embed the command's catch block sends.
CrashTitle(name) ==
  IF name = "admin" THEN "Admin Command Error" ELSE "Something Went Wrong"

\* Mutant: the catch block only logs.
CrashedSilently(r, message, ok2) ==
  [r EXCEPT !.pc = "done"]

\* The command's catch block: one more editReply.  The commands guard it
\* with a try of its own; handleAdminRequestVault does not.
Crashed(r, message, ok2) ==
  [r EXCEPT !.replies = Append(@, Embed(CrashTitle(r.name),
                                        IF r.name = "admin" THEN message
                                        ELSE CreateErrorDescription(message), ok2)),
            !.pc = IF ok2 \/ r.name # "admin" THEN "done" ELSE "escaped"]

\* await interaction.editReply(embed) inside the try block, then return.
\* ok: the reply is delivered; otherwise it raises into the catch block.
Replied(r, title, description, ok, ok2) ==
  LET sent == [r EXCEPT !.replies = Append(@, Embed(title, description, ok))]
  IN  IF ok THEN [sent EXCEPT !.pc = "done"]
      ELSE Crashed(sent, ReplyErrorMessage, ok2)

\* await inviteUserToVaultwarden(email, userInfo): the command waits for the
\* client operation.
CallInvite(c, r) ==
  /\ StartOp(c, "invite", r.email)
  /\ cmd' = [cmd EXCEPT ![c] =
       [r EXCEPT !.pc = "invite_wait", !.events = Append(@, Event("invite", r.email))]]

\* The command does not touch the client.
NoCall(c, r) ==
  /\ cmd' = [cmd EXCEPT ![c] = r]
  /\ UNCHANGED <<setup, now, cacheVars, vault, call>>

\* The lookup request goes out.
Looking(r) ==
  [r EXCEPT !.pc = "lookup_wait", !.events = Append(@, Event("lookup", r.email))]

\* An operator runs a command: validation and deferReply, up to the first
\* awaited network call.
CmdStart(c, name, email, targetUser, ok, ok2) ==
  /\ cmd[c].pc = "idle" /\ call[c].pc = "idle"
  /\ name \in Commands
  /\ (targetUser => name = "admin")
  /\ (name = "admin" => email \in Emails)   \* an admin types a well-formed email
  /\ LET n == [NoCommand EXCEPT !.name = name, !.email = email, !.targetUser = targetUser]
         r == [n EXCEPT !.deferred = IF ok THEN "ok" ELSE "failed"]
     IN  IF name = "admin"
           THEN IF ~ok THEN NoCall(c, Crashed(r, ReplyErrorMessage, ok2))
                ELSE IF targetUser THEN CallInvite(c, r)
                ELSE NoCall(c, Looking(r))
         ELSE IF ~EmailRegexTest(email)
           THEN NoCall(c, [n EXCEPT !.replies = <<Embed("Invalid Email", <<>>, ok)>>,
                                    !.pc = IF ok THEN "done" ELSE "escaped"])
         ELSE IF ~ok THEN NoCall(c, [r EXCEPT !.pc = "escaped"])
         ELSE NoCall(c, Looking(r))

\* Whether lookupUserTeam returns an entry: it returns null for an empty
\* result and, from its catch block, for every failed request.
LookupUserTeamOutageAsFound(outcome) ==
  outcome # "none"

LookupUserTeam(outcome) ==
  outcome = "found"

\* lookupUserTeam answers: the entry, or null when there is none or the
\* request failed (it never raises).
LookupResponse(c, outcome, ok, ok2) ==
  /\ cmd[c].pc = "lookup_wait"
  /\ outcome \in {"found", "none", "error"}
  /\ (outcome = "found") => directory[cmd[c].email]
  /\ (outcome = "none") => ~directory[cmd[c].email]
  /\ LET r == [cmd[c] EXCEPT !.lookup = outcome, !.found = LookupUserTeam(outcome)]
     IN  IF r.name = "admin" THEN CallInvite(c, r)
         ELSE IF ~r.found
           THEN NoCall(c, Replied(r, "Email Not Found", <<>>, ok, ok2))
         ELSE IF r.name = "invite"
           THEN NoCall(c, [r EXCEPT !.pc = "find_wait",
                                    !.events = Append(@, Event("findByEmail", r.email))])
         ELSE CallInvite(c, r)

\* getUserByEmail answers (or raises on a transport failure).
FindResponse(c, outcome, ok, ok2) ==
  /\ cmd[c].pc = "find_wait"
  /\ outcome \in {"answer", "throws"}
  /\ LET existing == GetUserByEmail(cmd[c].email)
         r == [cmd[c] EXCEPT !.existing = existing.status, !.memberId = existing.id]
         action == ExistingUserAction(existing)
     IN  IF outcome = "throws" THEN NoCall(c, Crashed(cmd[c], NetworkError, ok2))
         ELSE IF action = "already_confirmed"
           THEN NoCall(c, Replied(r, "Already Confirmed", <<>>, ok, ok2))
         ELSE IF action = "reinvite"
           THEN NoCall(c, [r EXCEPT !.pc = "reinvite_wait",
                                    !.events = Append(@, Event("reinvite", existing.id))])
         ELSE CallInvite(c, r)

\* reinviteUser answers.
ReinviteResponse(c, res, ok, ok2) ==
  /\ cmd[c].pc = "reinvite_wait"
  /\ res \in ReinviteResults
  /\ LET r == [cmd[c] EXCEPT !.reinvite = <<res>>]
         m == MapErrorToUserMessage(res.error)
     IN  IF res.success
           THEN NoCall(c, Replied(r, "Invitation Resent",
                                  GetCollectionNamesForRole(RoleKey(r.email)), ok, ok2))
         ELSE NoCall(c, Replied(r, m.title, m.description, ok, ok2))

\* The title and description a command shows for a failed invite.
InviteFailureEmbed(name, error) ==
  IF name = "invite" THEN MapErrorToUserMessage(error)
  ELSE IF name = "admin"
    THEN [title |-> "Admin Invitation Failed", description |-> error]
  ELSE [title |-> (IF ErrorCategory(error) = "already-exists" THEN "Already Invited"
                   ELSE "Invitation Failed"),
        description |-> error]

InviteSuccessTitle(name) ==
  CASE name = "invite" -> "Invitation Sent"
    [] name = "admin" -> "Admin Invitation Sent"
    [] OTHER -> "Password Manager Access Granted!"

\* The collections the success embed names (vault-invite.ts:143-150; the
\* other commands' embeds name none).
InviteSuccessText(r) ==
  IF r.name = "invite" THEN GetCollectionNamesForRole(RoleKey(r.email)) ELSE <<>>

\* inviteUserToVaultwarden has returned its result to the command.
CmdAfterInvite(c, ok, ok2) ==
  /\ cmd[c].pc = "invite_wait"
  /\ call[c].pc = "done"
  /\ LET m == InviteFailureEmbed(cmd[c].name, call[c].error)
         r == [cmd[c] EXCEPT !.carried = call[c].collections]
     IN  cmd' = [cmd EXCEPT ![c] =
           IF call[c].success
             THEN Replied(r, InviteSuccessTitle(r.name), InviteSuccessText(r), ok, ok2)
           ELSE Replied(r, m.title, m.description, ok, ok2)]
  /\ call' = [call EXCEPT ![c] = Idle]
  /\ UNCHANGED <<setup, now, cacheVars, vault>>

\* The text the older handler sends.
HandlerMessage == "There was an error while executing this command!"

\* The catch block of the InteractionCreate handler, for an error that
\* execute raised.  The newer one (part_003:54-81) sends an embed made
\* from the error and, should that fail, a plain text, each in a try; the
\* older one (client.ts:71-81) awaits its followUp or reply unguarded, so
\* a failure rejects the listener's promise, which nothing handles.
HandlerReply(h, r, ok, ok2) ==
  IF h = "guarded"
    THEN LET m == MapErrorToUserMessage(ReplyErrorMessage)
             first == Append(r.replies, Embed(m.title, m.description, ok))
         IN  [r EXCEPT !.pc = "handled",
                       !.replies = IF ok THEN first
                                   ELSE Append(first, Embed("Error:", m.description, ok2))]
  ELSE [r EXCEPT !.pc = IF ok THEN "handled" ELSE "unhandled",
                 !.replies = Append(@, Embed(HandlerMessage, <<>>, ok))]

\* execute raised: the handler's catch block runs.
HandlerCatch(c, ok, ok2) ==
  /\ cmd[c].pc = "escaped"
  /\ NoCall(c, HandlerReply(handler, cmd[c], ok, ok2))

\* The invocation has ended.
Over == {"done", "handled", "unhandled"}

\* The invocation is over; the next one starts afresh.
CmdEnd(c) ==
  /\ cmd[c].pc \in Over
  /\ cmd' = [cmd EXCEPT ![c] = NoCommand]
  /\ UNCHANGED <<setup, now, cacheVars, vault, call>>

InitProv ==
  /\ flavour = "admin"
  /\ configured \in BOOLEAN
  /\ now = 0
  /\ cachedToken = NoCred
  /\ tokenExpiry = 0
  /\ adminCookies = <<>>
  /\ cookieExpiry = 0
  /\ vault \in InVault({"none", "-1", "0", "1", "2"})
  /\ directory \in [Emails -> BOOLEAN]
  /\ team \in [Emails -> Teams]
  /\ profile = [e \in Accounts |-> FreshProfile]
  /\ call = [c \in Callers |-> Idle]
  /\ cmd = [c \in Callers |-> NoCommand]
  /\ handler = "guarded"

\* One invocation at a time, of every command, against every answer of the
\* directory, the vault and the chat front-end.
NextProv ==
  \/ \E name \in Commands, email \in EmailInputs, targetUser, ok, ok2 \in BOOLEAN :
       CmdStart("A", name, email, targetUser, ok, ok2)
  \/ \E outcome \in {"found", "none", "error"}, ok, ok2 \in BOOLEAN :
       LookupResponse("A", outcome, ok, ok2)
  \/ \E outcome \in {"answer", "throws"}, ok, ok2 \in BOOLEAN :
       FindResponse("A", outcome, ok, ok2)
  \/ \E res \in ReinviteResults, ok, ok2 \in BOOLEAN :
       ReinviteResponse("A", res, ok, ok2)
  \/ \E o \in {"cookies", "no_cookies", "redirect_cookies", "redirect_no_cookies",
                "http_error", "transport"} : AuthResponse("A", o, AdminSessionSeconds)
  \/ ReqSuccess("A")
  \/ \E f \in Failures : AdminReqFailure("A", f)
  \/ \E ok, ok2 \in BOOLEAN : CmdAfterInvite("A", ok, ok2)
  \/ \E ok, ok2 \in BOOLEAN : HandlerCatch("A", ok, ok2)
  \/ CmdEnd("A")
  \/ Tick
  \/ \E e \in Emails : UserAccepts(e)

SpecProv == InitProv /\ [][NextProv]_vars

\* The commands under either revision of the interaction handler.
InitReply ==
  /\ flavour = "admin"
  /\ configured = TRUE
  /\ now = 0
  /\ cachedToken = NoCred
  /\ tokenExpiry = 0
  /\ adminCookies = <<>>
  /\ cookieExpiry = 0
  /\ vault \in InVault({"none", "0", "2"})
  /\ directory \in [Emails -> BOOLEAN]
  /\ team = [e \in Emails |-> "Design"]
  /\ profile = [e \in Accounts |-> FreshProfile]
  /\ call = [c \in Callers |-> Idle]
  /\ cmd = [c \in Callers |-> NoCommand]
  /\ handler \in {"guarded", "unguarded"}

SpecReply == InitReply /\ [][NextProv]_vars

----------------------------------------------------------------------------
(* Confirmation: the chat commands                                         *)
(*   "confirm"            - /confirm vault (vault-confirm execute)         *)
(*   "confirm_membership" - the earlier revision, which fetches the        *)
(*                          member's public key first (request-vault.ts)   *)

ConfirmCommands == {"confirm", "confirm_membership"}

\* confirmUserMembership returns a result, never raises.
ConfirmResults ==
  { [success |-> TRUE, error |-> <<>>],
    [success |-> FALSE, error |-> <<>>],
    [success |-> FALSE, error |-> <<"User", "already", "confirmed">>],
    [success |-> FALSE, error |-> <<"Request", "failed", "404">>],
    [success |-> FALSE, error |-> <<"authentication", "failed">>] }

\* A member has a public key once the account exists, that is once the
\* invitation was accepted.
PublicKeyExists(e) == vault[e] \in {"1", "2"}

\* The decision on the member found (vault-confirm execute, :58 and :69).
ConfirmUserConfirmsAgain(user) ==
  IF ~user.present THEN "not_found" ELSE "proceed"

ConfirmUserInvitesMissing(user) ==
  IF user.present /\ user.status = "2" THEN "already_confirmed" ELSE "proceed"

ConfirmUserAction(user) ==
  IF ~user.present THEN "not_found"
  ELSE IF user.status = "2" THEN "already_confirmed"
  ELSE "proceed"

\* How the command titles a failed confirmation (:94-100).
ConfirmFailureTitle(error) ==
  IF Includes(error, <<"already", "confirmed">>) \/ Includes(error, <<"404">>)
    THEN "Already Confirmed"
  ELSE "Confirmation Failed"

\* The catch block: one more editReply, in a try of its own.
ConfirmCrashed(r, ok2) ==
  [r EXCEPT !.replies = Append(@, Embed("Something Went Wrong", GenericDescription, ok2)),
            !.pc = "done"]

ConfirmReplied(r, title, ok, ok2) ==
  LET sent == [r EXCEPT !.replies = Append(@, Embed(title, <<>>, ok))]
  IN  IF ok THEN [sent EXCEPT !.pc = "done"] ELSE ConfirmCrashed(sent, ok2)

\* The confirm request goes out for the member's two identifiers.
Confirming(r, user) ==
  [r EXCEPT !.pc = "confirm_wait",
            !.events = Append(@, Event("confirm", <<user.id, user.userId>>))]

\* An operator runs a confirm command: validation and deferReply, then
\* getUserByEmail is awaited.
ConfirmStart(c, name, email, ok, ok2) ==
  /\ cmd[c].pc = "idle" /\ call[c].pc = "idle"
  /\ name \in ConfirmCommands
  /\ LET n == [NoCommand EXCEPT !.name = name, !.email = email]
         r == [n EXCEPT !.deferred = IF ok THEN "ok" ELSE "failed"]
     IN  IF ~EmailRegexTest(email)
           THEN NoCall(c, [n EXCEPT !.replies = <<Embed("Invalid Email", <<>>, ok)>>,
                                    !.pc = IF ok THEN "done" ELSE "escaped"])
         ELSE IF ~ok THEN NoCall(c, [r EXCEPT !.pc = "escaped"])
         ELSE NoCall(c, [r EXCEPT !.pc = "user_wait",
                                  !.events = <<Event("findByEmail", email)>>])

\* getUserByEmail answers (or raises on a transport failure).
ConfirmFindResponse(c, outcome, ok, ok2) ==
  /\ cmd[c].pc = "user_wait"
  /\ outcome \in {"answer", "throws"}
  /\ LET user == GetUserByEmail(cmd[c].email)
         r == [cmd[c] EXCEPT !.existing = user.status, !.memberId = user.id]
         action == ConfirmUserAction(user)
     IN  IF outcome = "throws" THEN NoCall(c, ConfirmCrashed(cmd[c], ok2))
         ELSE IF action = "not_found"
           THEN NoCall(c, ConfirmReplied(r, "User Not Found", ok, ok2))
         ELSE IF action = "already_confirmed"
           THEN NoCall(c, ConfirmReplied(r, "Already Confirmed", ok, ok2))
         ELSE IF r.name = "confirm_membership"
           THEN NoCall(c, [r EXCEPT !.pc = "key_wait",
                                    !.events = Append(@, Event("publicKey", user.userId))])
         ELSE NoCall(c, Confirming(r, user))

\* getUserPublicKey answers: the key, or null when there is none or the
\* request failed.
PublicKeyResponse(c, outcome, ok, ok2) ==
  /\ cmd[c].pc = "key_wait"
  /\ outcome \in {"key", "null"}
  /\ (outcome = "key") => PublicKeyExists(cmd[c].email)
  /\ LET r == [cmd[c] EXCEPT !.key = outcome]
     IN  IF outcome = "null"
           THEN NoCall(c, ConfirmReplied(r, "Public Key Not Available", ok, ok2))
         ELSE NoCall(c, Confirming(r, [id |-> MemberId(r.email), userId |-> UserId(r.email)]))

\* confirmUserMembership answers; the vault confirms an Accepted member.
ConfirmResponse(c, res, ok, ok2) ==
  /\ cmd[c].pc = "confirm_wait"
  /\ res \in ConfirmResults
  /\ res.success => VaultAccepts("confirm", cmd[c].email)
  /\ vault' = IF res.success THEN VaultAfter("confirm", cmd[c].email) ELSE vault
  /\ cmd' = [cmd EXCEPT ![c] =
       IF res.success THEN ConfirmReplied(cmd[c], "User Confirmed", ok, ok2)
       ELSE ConfirmReplied(cmd[c], ConfirmFailureTitle(res.error), ok, ok2)]
  /\ UNCHANGED <<setup, now, cacheVars, call>>

----------------------------------------------------------------------------
(* Confirmation: the scheduled job processPendingConfirmations, which runs *)
(* on the OAuth client's getOrganizationMembers and confirmMember.         *)

\* members.filter(member => member.status === 1)
PendingMembers(listing) == {e \in Accounts : listing[e] = "1"}

\* A cron schedule fires: the job asks for the organization's members.
CronFires(c) ==
  /\ flavour = "oauth"
  /\ cmd[c].pc = "idle"
  /\ StartOp(c, "list", "-")
  /\ cmd' = [cmd EXCEPT ![c] =
       [NoCommand EXCEPT !.name = "confirm_job", !.pc = "members_wait"]]

\* getOrganizationMembers has returned or raised.
JobAfterList(c) ==
  /\ cmd[c].pc = "members_wait"
  /\ call[c].pc = "done"
  /\ cmd' = [cmd EXCEPT ![c] =
       IF call[c].threw THEN [@ EXCEPT !.pc = "done"]
       ELSE [@ EXCEPT !.pc = "pending", !.pending = PendingMembers(call[c].listing)]]
  /\ call' = [call EXCEPT ![c] = Idle]
  /\ UNCHANGED <<setup, now, cacheVars, vault>>

\* for (const member of pendingMembers): confirmMember(member.id), or the
\* end of the loop.
JobConfirmNext(c) ==
  /\ cmd[c].pc = "pending"
  /\ IF cmd[c].pending = {}
       THEN NoCall(c, [cmd[c] EXCEPT !.pc = "done"])
       ELSE LET e == CHOOSE e \in cmd[c].pending : TRUE
            IN  /\ StartOp(c, "confirm", e)
                /\ cmd' = [cmd EXCEPT ![c] =
                     [@ EXCEPT !.pc = "member_wait", !.email = e,
                               !.pending = @ \ {e},
                               !.events = Append(@, Event("confirm", <<MemberId(e)>>))]]

\* confirmMember has returned; the loop goes on after its delay.
JobAfterConfirm(c) ==
  /\ cmd[c].pc = "member_wait"
  /\ call[c].pc = "done"
  /\ cmd' = [cmd EXCEPT ![c] = [@ EXCEPT !.pc = "pending"]]
  /\ call' = [call EXCEPT ![c] = Idle]
  /\ UNCHANGED <<setup, now, cacheVars, vault>>

\* The failures the job's requests meet: a rejected token, no response.
JobFailures == {f \in Failures : f.status \in {"401", "none"}}

\* The clock read as a wall clock: now = 0 is a Sunday, 00:00.
GetDay(t) == (t \div (24 * 60 * MinuteMs)) % 7
GetHours(t) == (t \div (60 * MinuteMs)) % 24
GetMinutes(t) == (t \div MinuteMs) % 60

\* '*/30 9-18 * * 1-5'
BusinessSchedule(t) ==
  /\ GetMinutes(t) % 30 = 0
  /\ GetHours(t) \in 9..18
  /\ GetDay(t) \in 1..5

\* '0 */2 * * *'
AfterHoursSchedule(t) ==
  /\ GetMinutes(t) = 0
  /\ GetHours(t) % 2 = 0

\* hour < 9 || hour >= 18 || day === 0 || day === 6
OutsideBusinessHours(t) ==
  GetHours(t) < 9 \/ GetHours(t) >= 18 \/ GetDay(t) = 0 \/ GetDay(t) = 6

\* The callback of the business-hours schedule.
BusinessHoursTick(c) ==
  /\ BusinessSchedule(now)
  /\ CronFires(c)

\* The callback of the two-hourly schedule.
AfterHoursTick(c) ==
  /\ AfterHoursSchedule(now)
  /\ OutsideBusinessHours(now)
  /\ CronFires(c)

InitConfirm ==
  /\ flavour = "oauth"
  /\ configured = TRUE
  /\ now = 0
  /\ cachedToken = NoCred
  /\ tokenExpiry = 0
  /\ adminCookies = <<>>
  /\ cookieExpiry = 0
  /\ vault \in InVault({"none", "-1", "0", "1", "2"})
  /\ directory = [e \in Emails |-> TRUE]
  /\ team = [e \in Emails |-> "Design"]
  /\ profile = [e \in Accounts |-> FreshProfile]
  /\ call = [c \in Callers |-> Idle]
  /\ cmd = [c \in Callers |-> NoCommand]
  /\ handler = "guarded"

\* An operator (A) runs confirm commands while the scheduler (B) runs its
\* job.
NextConfirm ==
  \/ \E name \in ConfirmCommands, email \in EmailInputs, ok, ok2 \in BOOLEAN :
       ConfirmStart("A", name, email, ok, ok2)
  \/ \E outcome \in {"answer", "throws"}, ok, ok2 \in BOOLEAN :
       ConfirmFindResponse("A", outcome, ok, ok2)
  \/ \E outcome \in {"key", "null"}, ok, ok2 \in BOOLEAN :
       PublicKeyResponse("A", outcome, ok, ok2)
  \/ \E res \in ConfirmResults, ok, ok2 \in BOOLEAN :
       ConfirmResponse("A", res, ok, ok2)
  \/ \E ok, ok2 \in BOOLEAN : HandlerCatch("A", ok, ok2)
  \/ \E c \in Callers : CmdEnd(c)
  \/ CronFires("B")
  \/ \E o \in {"ok", "http_error", "transport"}, e \in ExpiresIn : AuthResponse("B", o, e)
  \/ ReqSuccess("B")
  \/ \E f \in JobFailures : OAuthReqFailure("B", f)
  \/ JobAfterList("B")
  \/ JobConfirmNext("B")
  \/ JobAfterConfirm("B")
  \/ \E e \in Emails : UserAccepts(e)
  \/ Tick

SpecConfirm == InitConfirm /\ [][NextConfirm]_vars

\* The minutes of a week at which node-cron is looked at: every full and
\* half hour, and a quarter to.
Instants ==
  {((d * 24 + h) * 60 + m) * MinuteMs : d \in 0..6, h \in 0..23, m \in {0, 30, 45}}

InitSchedule ==
  /\ flavour = "oauth"
  /\ configured = TRUE
  /\ now \in Instants
  /\ cachedToken = NoCred
  /\ tokenExpiry = 0
  /\ adminCookies = <<>>
  /\ cookieExpiry = 0
  /\ vault \in InVault({"none", "1"})
  /\ directory = [e \in Emails |-> TRUE]
  /\ team = [e \in Emails |-> "Design"]
  /\ profile = [e \in Accounts |-> FreshProfile]
  /\ call = [c \in Callers |-> Idle]
  /\ cmd = [c \in Callers |-> NoCommand]
  /\ handler = "guarded"

\* What the two schedules start at one instant: A is the callback of the
\* business-hours schedule, B the callback of the two-hourly one.
NextSchedule ==
  \/ BusinessHoursTick("A")
  \/ AfterHoursTick("B")
  \/ \E c \in Callers, o \in {"ok", "transport"} : AuthResponse(c, o, 120)
  \/ \E c \in Callers : ReqSuccess(c)
  \/ \E c \in Callers, f \in {g \in Failures : g.status = "none"} : OAuthReqFailure(c, f)
  \/ \E c \in Callers : JobAfterList(c)
  \/ \E c \in Callers : JobConfirmNext(c)
  \/ \E c \in Callers : JobAfterConfirm(c)

SpecSchedule == InitSchedule /\ [][NextSchedule]_vars

----------------------------------------------------------------------------
(* Retention Policy Job: cleanupInactiveUsers, which runs on the admin     *)
(* client's getAllVaultwardenUsers and deleteVaultwardenUser.              *)

\* user.UserEnabled !== false
IsEnabled(p) == p.userEnabled # "false"

\* user.PasswordHash && user.PasswordHash.length > 0
HasPassword(p) == p.passwordHash = "set"

Keep == "keep"

RetentionVerdictInactiveFirst(p, t) ==
  IF p.lastActive.known /\ p.lastActive.at < t - 90 * DayMinutes
    THEN "No activity for 90+ days"
  ELSE IF ~IsEnabled(p) /\ p.lastActive.known /\ p.lastActive.at < t - 30 * DayMinutes
    THEN "Disabled and inactive for 30+ days"
  ELSE IF ~HasPassword(p) /\ p.createdAt.known /\ p.createdAt.at < t - 7 * DayMinutes
    THEN "Never set password after 7 days"
  ELSE Keep

RetentionVerdictSparesEnabled(p, t) ==
  IF ~HasPassword(p) /\ p.createdAt.known /\ p.createdAt.at < t - 7 * DayMinutes
    THEN "Never set password after 7 days"
  ELSE IF ~IsEnabled(p) /\ p.lastActive.known /\ p.lastActive.at < t - 30 * DayMinutes
    THEN "Disabled and inactive for 30+ days"
  ELSE IF ~IsEnabled(p) /\ p.lastActive.known /\ p.lastActive.at < t - 90 * DayMinutes
    THEN "No activity for 90+ days"
  ELSE Keep

RetentionVerdictMissingDateIsOld(p, t) ==
  IF ~HasPassword(p) /\ (~p.createdAt.known \/ p.createdAt.at < t - 7 * DayMinutes)
    THEN "Never set password after 7 days"
  ELSE IF ~IsEnabled(p) /\ (~p.lastActive.known \/ p.lastActive.at < t - 30 * DayMinutes)
    THEN "Disabled and inactive for 30+ days"
  ELSE IF ~p.lastActive.known \/ p.lastActive.at < t - 90 * DayMinutes
    THEN "No activity for 90+ days"
  ELSE Keep

\* shouldDelete and reason for one user, at the run's now (t, in minutes).
RetentionVerdict(p, t) ==
  IF ~HasPassword(p) /\ p.createdAt.known /\ p.createdAt.at < t - 7 * DayMinutes
    THEN "Never set password after 7 days"
  ELSE IF ~IsEnabled(p) /\ p.lastActive.known /\ p.lastActive.at < t - 30 * DayMinutes
    THEN "Disabled and inactive for 30+ days"
  ELSE IF p.lastActive.known /\ p.lastActive.at < t - 90 * DayMinutes
    THEN "No activity for 90+ days"
  ELSE Keep

\* The users the listing returned.
ListedUsers(listing) == {e \in Accounts : listing[e] # "none"}

\* The user the for-of loop takes next: the first of the listing's order.
NextUser(S) ==
  ListOrder[CHOOSE i \in 1..Len(ListOrder) :
              /\ ListOrder[i] \in S
              /\ \A j \in 1..(i - 1) : ListOrder[j] \notin S]

\* setTimeout(resolve, 500) after every user.
PauseMs == 500

\* The error texts the run pushes, as the text and the user it names.
FailedToDelete(e) == <<"Failed to delete", e>>
CleanupProcessError == <<"Cleanup process error", "-">>
ErrorProcessingUser(e) == <<"Error processing user", e>>

\* The listing failed: the outer catch records it and the run returns.
AfterListFailureUnrecorded(r) ==
  [r EXCEPT !.pc = "done"]

AfterListFailure(r) ==
  [r EXCEPT !.pc = "done",
            !.result = [@ EXCEPT !.errors = Append(@, CleanupProcessError)]]

\* deleteVaultwardenUser returned: the run counts the deletion or records
\* the failure, counts the user as inactive and goes on to its delay.
AfterDeleteUncounted(r, e, deleted) ==
  [r EXCEPT !.pc = "pause",
            !.events = Append(@, Event("returned", deleted)),
            !.result = [@ EXCEPT !.errors = IF deleted THEN @ ELSE Append(@, FailedToDelete(e)),
                                 !.inactiveUsers = @ + 1]]

AfterDeleteStops(r, e, deleted) ==
  [r EXCEPT !.pc = IF deleted THEN "pause" ELSE "done",
            !.events = Append(@, Event("returned", deleted)),
            !.result = [@ EXCEPT !.deleted = IF deleted THEN @ + 1 ELSE @,
                                 !.errors = IF deleted THEN @ ELSE Append(@, FailedToDelete(e)),
                                 !.inactiveUsers = @ + 1]]

AfterDeleteNoDelay(r, e, deleted) ==
  [r EXCEPT !.pc = "users",
            !.events = Append(@, Event("returned", deleted)),
            !.result = [@ EXCEPT !.deleted = IF deleted THEN @ + 1 ELSE @,
                                 !.errors = IF deleted THEN @ ELSE Append(@, FailedToDelete(e)),
                                 !.inactiveUsers = @ + 1]]

AfterDeleteInactiveIfDeleted(r, e, deleted) ==
  [r EXCEPT !.pc = "pause",
            !.events = Append(@, Event("returned", deleted)),
            !.result = [@ EXCEPT !.deleted = IF deleted THEN @ + 1 ELSE @,
                                 !.errors = IF deleted THEN @ ELSE Append(@, FailedToDelete(e)),
                                 !.inactiveUsers = IF deleted THEN @ + 1 ELSE @]]

AfterDeleteRetries(r, e, deleted) ==
  [r EXCEPT !.pc = "pause",
            !.pending = IF deleted THEN @ ELSE @ \cup {e},
            !.events = Append(@, Event("returned", deleted)),
            !.result = [@ EXCEPT !.deleted = IF deleted THEN @ + 1 ELSE @,
                                 !.errors = IF deleted THEN @ ELSE Append(@, FailedToDelete(e)),
                                 !.inactiveUsers = @ + 1]]

AfterDelete(r, e, deleted) ==
  [r EXCEPT !.pc = "pause",
            !.events = Append(@, Event("returned", deleted)),
            !.result = [@ EXCEPT !.deleted = IF deleted THEN @ + 1 ELSE @,
                                 !.errors = IF deleted THEN @ ELSE Append(@, FailedToDelete(e)),
                                 !.inactiveUsers = @ + 1]]

\* The cron schedule fires: the job asks for all users.
CleanupFires(c) ==
  /\ flavour = "admin"
  /\ cmd[c].pc = "idle"
  /\ StartOp(c, "list", "-")
  /\ cmd' = [cmd EXCEPT ![c] =
       [NoCommand EXCEPT !.name = "cleanup_job", !.pc = "users_wait"]]

\* getAllVaultwardenUsers has returned or raised; const now = new Date().
CleanupAfterList(c) ==
  /\ cmd[c].pc = "users_wait"
  /\ call[c].pc = "done"
  /\ cmd' = [cmd EXCEPT ![c] =
       IF call[c].threw
         THEN AfterListFailure(@)
       ELSE IF ListedUsers(call[c].listing) = {} THEN [@ EXCEPT !.pc = "done"]
       ELSE [@ EXCEPT !.pc = "users", !.pending = ListedUsers(call[c].listing),
                      !.allUsers = ListedUsers(call[c].listing),
                      !.result = [@ EXCEPT !.totalUsers = Cardinality(ListedUsers(call[c].listing))],
                      !.at = now \div MinuteMs]]
  /\ call' = [call EXCEPT ![c] = Idle]
  /\ UNCHANGED <<setup, now, cacheVars, vault>>

\* for (const user of allUsers): classify the user and, when shouldDelete,
\* call deleteVaultwardenUser(user.Id); or the end of the loop.  A record
\* whose CreatedAt or LastActive is not a date makes toISOString raise in
\* the logging lines (bitwarden.ts:453-454): the per-user catch records the
\* error and the loop goes on, without the delay.
CleanupNext(c) ==
  /\ cmd[c].pc = "users"
  /\ IF cmd[c].pending = {}
       THEN NoCall(c, [cmd[c] EXCEPT !.pc = "done"])
       ELSE LET e == NextUser(cmd[c].pending)
                verdict == RetentionVerdict(profile[e], cmd[c].at)
                r == [cmd[c] EXCEPT !.pending = @ \ {e}, !.email = e,
                                    !.events = Append(@, Event("verdict", <<e, verdict>>))]
            IN  IF ~profile[e].datesValid
                  THEN NoCall(c, [cmd[c] EXCEPT
                         !.pending = @ \ {e}, !.email = e,
                         !.events = Append(@, Event("threw", e)),
                         !.result = [@ EXCEPT !.errors = Append(@, ErrorProcessingUser(e))]])
                ELSE IF verdict = Keep
                  THEN NoCall(c, [r EXCEPT !.pc = "pause",
                                           !.result = [@ EXCEPT !.activeUsers = @ + 1]])
                ELSE /\ StartOp(c, "delete", e)
                     /\ cmd' = [cmd EXCEPT ![c] =
                          [r EXCEPT !.pc = "delete_wait",
                                    !.events = Append(@, Event("delete", e))]]

\* deleteVaultwardenUser has returned true or false.
CleanupAfterDelete(c) ==
  /\ cmd[c].pc = "delete_wait"
  /\ call[c].pc = "done"
  /\ cmd' = [cmd EXCEPT ![c] = AfterDelete(@, @.email, call[c].success)]
  /\ call' = [call EXCEPT ![c] = Idle]
  /\ UNCHANGED <<setup, now, cacheVars, vault>>

\* The delay after a user is over; the loop takes the next user.
CleanupPause(c) ==
  /\ cmd[c].pc = "pause"
  /\ NoCall(c, [cmd[c] EXCEPT !.pc = "users",
                              !.events = Append(@, Event("pause", PauseMs))])

InitCleanup ==
  /\ flavour = "admin"
  /\ configured \in BOOLEAN
  /\ now = 0
  /\ cachedToken = NoCred
  /\ tokenExpiry = 0
  /\ adminCookies = <<>>
  /\ cookieExpiry = 0
  /\ vault \in InVault({"none", "0", "2"})
  /\ directory = [e \in Emails |-> TRUE]
  /\ team = [e \in Emails |-> "Design"]
  /\ profile \in {[e \in Accounts |-> IF e \in Emails THEN f[e] ELSE FreshProfile] :
                   f \in [Emails -> Profiles]}
  /\ call = [c \in Callers |-> Idle]
  /\ cmd = [c \in Callers |-> NoCommand]
  /\ handler = "guarded"

\* The scheduler (B) runs the cleanup, one run at a time.
NextCleanup ==
  \/ CleanupFires("B")
  \/ \E o \in {"cookies", "no_cookies", "redirect_cookies", "redirect_no_cookies",
                "http_error", "transport"} : AuthResponse("B", o, AdminSessionSeconds)
  \/ ReqSuccess("B")
  \/ \E f \in JobFailures : AdminReqFailure("B", f)
  \/ CleanupAfterList("B")
  \/ CleanupNext("B")
  \/ CleanupAfterDelete("B")
  \/ CleanupPause("B")
  \/ CmdEnd("B")
  \/ Tick

SpecCleanup == InitCleanup /\ [][NextCleanup]_vars

\* A user last active 95 days ago: rule 3 matches.
StaleProfile == [FreshProfile EXCEPT !.lastActive = DaysAgo(95)]

\* A user record whose dates do not parse.
MalformedProfile == [FreshProfile EXCEPT !.datesValid = FALSE]

\* Cleanup runs over a vault of up to three users, each fresh or stale.
InitRun ==
  /\ flavour = "admin"
  /\ configured = TRUE
  /\ now = 0
  /\ cachedToken = NoCred
  /\ tokenExpiry = 0
  /\ adminCookies = <<>>
  /\ cookieExpiry = 0
  /\ vault \in [Accounts -> {"none", "2"}]
  /\ directory = [e \in Emails |-> TRUE]
  /\ team = [e \in Emails |-> "Design"]
  /\ profile \in [Accounts -> {FreshProfile, StaleProfile, MalformedProfile}]
  /\ call = [c \in Callers |-> Idle]
  /\ cmd = [c \in Callers |-> NoCommand]
  /\ handler = "guarded"

SpecRun == InitRun /\ [][NextCleanup]_vars

\* What a run in progress does next: a response of the vault arrives, or
\* the continuation of the awaited call, or the timer of the delay, runs.
PassStep ==
  \/ \E o \in {"cookies", "no_cookies", "redirect_cookies", "redirect_no_cookies",
                "http_error", "transport"} : AuthResponse("B", o, AdminSessionSeconds)
  \/ ReqSuccess("B")
  \/ \E f \in JobFailures : AdminReqFailure("B", f)
  \/ CleanupAfterList("B")
  \/ CleanupNext("B")
  \/ CleanupAfterDelete("B")
  \/ CleanupPause("B")

\* The cleanup runs of SpecRun, where every request is answered and the
\* event loop runs every continuation and timer that is due.
SpecPass == InitRun /\ [][NextCleanup]_vars /\ WF_vars(PassStep)

\* runManualCleanup: a run started by hand.
RunManualCleanup(c) ==
  /\ flavour = "admin"
  /\ cmd[c].pc = "idle"
  /\ StartOp(c, "list", "-")
  /\ cmd' = [cmd EXCEPT ![c] =
       [NoCommand EXCEPT !.name = "cleanup_job", !.pc = "users_wait"]]

\* A vault of at most one user, stale or fresh.
InitOverlap ==
  /\ InitRun
  /\ \A e \in Accounts \ Emails : vault[e] = "none" /\ profile[e] = FreshProfile

\* A run started by hand (A) and the daily schedule (B): neither start
\* looks at whether a run is in progress.
NextOverlap ==
  \/ RunManualCleanup("A")
  \/ CleanupFires("B")
  \/ \E c \in Callers, o \in {"cookies", "transport"} :
       AuthResponse(c, o, AdminSessionSeconds)
  \/ \E c \in Callers : ReqSuccess(c)
  \/ \E c \in Callers, f \in JobFailures : AdminReqFailure(c, f)
  \/ \E c \in Callers : CleanupAfterList(c)
  \/ \E c \in Callers : CleanupNext(c)
  \/ \E c \in Callers : CleanupAfterDelete(c)
  \/ \E c \in Callers : CleanupPause(c)
  \/ \E c \in Callers : CmdEnd(c)
  \/ Tick

SpecOverlap == InitOverlap /\ [][NextOverlap]_vars

\* The whole engine at work on one account: an operator's provisioning
\* and confirmation commands (A) next to the scheduled jobs (B), with
\* every reply delivered and requests that succeed or fail in transport.
InitEngine ==
  /\ flavour \in {"oauth", "admin"}
  /\ configured = TRUE
  /\ now = 0
  /\ cachedToken = NoCred
  /\ tokenExpiry = 0
  /\ adminCookies = <<>>
  /\ cookieExpiry = 0
  /\ vault \in InVault({"none", "-1", "0", "1", "2"})
  /\ directory = [e \in Emails |-> TRUE]
  /\ team = [e \in Emails |-> "Design"]
  /\ profile \in {[e \in Accounts |-> IF e \in Emails THEN p ELSE FreshProfile] :
                   p \in {FreshProfile, StaleProfile}}
  /\ call = [c \in Callers |-> Idle]
  /\ cmd = [c \in Callers |-> NoCommand]
  /\ handler = "guarded"

NextEngine ==
  \/ \E name \in Commands, email \in Emails, targetUser \in BOOLEAN :
       CmdStart("A", name, email, targetUser, TRUE, TRUE)
  \/ LookupResponse("A", "found", TRUE, TRUE)
  \/ FindResponse("A", "answer", TRUE, TRUE)
  \/ \E res \in ReinviteResults : ReinviteResponse("A", res, TRUE, TRUE)
  \/ CmdAfterInvite("A", TRUE, TRUE)
  \/ \E name \in ConfirmCommands, email \in Emails :
       ConfirmStart("A", name, email, TRUE, TRUE)
  \/ ConfirmFindResponse("A", "answer", TRUE, TRUE)
  \/ \E outcome \in {"key", "null"} : PublicKeyResponse("A", outcome, TRUE, TRUE)
  \/ \E res \in ConfirmResults : ConfirmResponse("A", res, TRUE, TRUE)
  \/ \E c \in Callers : CmdEnd(c)
  \/ CronFires("B")
  \/ JobAfterList("B")
  \/ JobConfirmNext("B")
  \/ JobAfterConfirm("B")
  \/ CleanupFires("B")
  \/ CleanupAfterList("B")
  \/ CleanupNext("B")
  \/ CleanupAfterDelete("B")
  \/ CleanupPause("B")
  \/ \E c \in Callers, o \in {"ok", "cookies", "transport"} :
       AuthResponse(c, o, IF flavour = "oauth" THEN 120 ELSE AdminSessionSeconds)
  \/ \E c \in Callers : ReqSuccess(c)
  \/ \E c \in Callers, f \in {g \in Failures : g.status = "none"} :
       AdminReqFailure(c, f)
  \/ \E c \in Callers, f \in {g \in Failures : g.status = "none"} :
       OAuthReqFailure(c, f)
  \/ \E e \in Emails : UserAccepts(e)

SpecEngine == InitEngine /\ [][NextEngine]_vars

\* Two operators run the invite command for one address at the same time:
\* the invocations interleave at every await.  Replies are delivered.
InitRace ==
  /\ InitProv
  /\ configured
  /\ \A e \in Emails : directory[e] /\ team[e] = "Design" /\ vault[e] \in {"none", "0"}

NextRace ==
  \/ \E c \in Callers, email \in Emails : CmdStart(c, "invite", email, FALSE, TRUE, TRUE)
  \/ \E c \in Callers : LookupResponse(c, "found", TRUE, TRUE)
  \/ \E c \in Callers : FindResponse(c, "answer", TRUE, TRUE)
  \/ \E c \in Callers, res \in ReinviteResults : ReinviteResponse(c, res, TRUE, TRUE)
  \/ \E c \in Callers, o \in {"cookies", "transport"} :
       AuthResponse(c, o, AdminSessionSeconds)
  \/ \E c \in Callers : ReqSuccess(c)
  \/ \E c \in Callers, f \in {g \in Failures : g.status \in {"400", "none"}} :
       AdminReqFailure(c, f)
  \/ \E c \in Callers : CmdAfterInvite(c, TRUE, TRUE)
  \/ \E c \in Callers : CmdEnd(c)
  \/ Tick

SpecRace == InitRace /\ [][NextRace]_vars

\* Two invocations of the invite command in succession: B is issued once
\* A's invocation is over.
MayRun(c) == c = "A" \/ cmd["A"].pc \in Over

NextSeq ==
  \/ \E c \in Callers, email \in Emails, ok, ok2 \in BOOLEAN :
       MayRun(c) /\ CmdStart(c, "invite", email, FALSE, ok, ok2)
  \/ \E c \in Callers, outcome \in {"found", "none", "error"}, ok, ok2 \in BOOLEAN :
       LookupResponse(c, outcome, ok, ok2)
  \/ \E c \in Callers, outcome \in {"answer", "throws"}, ok, ok2 \in BOOLEAN :
       FindResponse(c, outcome, ok, ok2)
  \/ \E c \in Callers, res \in ReinviteResults, ok, ok2 \in BOOLEAN :
       ReinviteResponse(c, res, ok, ok2)
  \/ \E c \in Callers,
        o \in {"cookies", "no_cookies", "redirect_cookies", "redirect_no_cookies",
               "http_error", "transport"} : AuthResponse(c, o, AdminSessionSeconds)
  \/ \E c \in Callers : ReqSuccess(c)
  \/ \E c \in Callers, f \in Failures : AdminReqFailure(c, f)
  \/ \E c \in Callers, ok, ok2 \in BOOLEAN : CmdAfterInvite(c, ok, ok2)
  \/ \E c \in Callers, ok, ok2 \in BOOLEAN : HandlerCatch(c, ok, ok2)
  \/ Tick

SpecSeq == InitProv /\ [][NextSeq]_vars

----------------------------------------------------------------------------
(* Claims C1 - C8: Session Cache and Membership Client *)

\* C1: a credential returned from the cache (the call made at time calledAt
\* performed no exchange) was obtained by an exchange at time cred.at with
\* declared lifetime cred.ttl seconds, and calledAt is strictly before
\* cred.at + lifetime - margin: margin 60 s for the OAuth token, 2 min of
\* the 20 min session for the admin cookies.
C1_CachedCredentialNotReusedPastExpiry ==
  \A c \in Callers :
    call[c].hit =>
      call[c].calledAt <
        call[c].cred.at + call[c].cred.ttl * 1000
          - (IF flavour = "oauth" THEN 60000 ELSE 2 * 60 * 1000)

\* C1 witness: a cached credential is reused at a later time than its exchange.
C1_Witness ==
  \E c \in Callers :
    call[c].hit /\ call[c].calledAt > call[c].cred.at /\ call[c].pc = "req_wait"

\* C2: a step in which the authentication exchange fails (HTTP error,
\* transport error, no cookies returned) raises out of the credential call
\* and leaves the cached credential and the cached expiry as they were.
C2_AuthFailureLeavesCache ==
  [][ \A c \in Callers :
        ( /\ call[c].pc = "auth_wait"
          /\ call'[c].pc # "auth_wait"
          /\ ~AuthSucceeds(call'[c].authOutcome) )
        => (call'[c].authThrew /\ UNCHANGED cacheVars) ]_vars

\* C2 witness: an exchange has failed while the cache held an (expired)
\* credential from an earlier exchange.
C2_Witness ==
  \E c \in Callers :
    /\ call[c].authThrew
    /\ call[c].authOutcome \in {"http_error", "transport", "no_cookies"}
    /\ (cachedToken # NoCred \/ Len(adminCookies) > 0)

\* C3 (as claimed): every step in which an operation handles a 401 leaves
\* the cache without a credential that would be returned as valid.
C3_Every401InvalidatesCache ==
  [][ \A c \in Callers :
        ( /\ call[c].pc = "req_wait"
          /\ call'[c] # call[c]
          /\ ~call'[c].success
          /\ call'[c].lastErr.status = "401" )
        => ~CacheValid' ]_vars

\* C4 (as claimed): an operation whose first response was 401 has sent its
\* request exactly twice by the time it is done.
C4_RetriesOnceAfter401 ==
  \A c \in Callers :
    (call[c].pc = "done" /\ call[c].first = "401") => Len(call[c].sent) = 2

\* C5 (as claimed): one invocation sends at most two requests.
C5_AtMostTwoRequests ==
  \A c \in Callers : Len(call[c].sent) <= 2

\* C6 (as claimed): an invite or list whose request got a failure other than
\* 401 has sent exactly one request, to one endpoint, and is done.
C6_NoRetryNoProbing ==
  \A c \in Callers :
    ( /\ call[c].op \in {"invite", "list"}
      /\ call[c].first \notin {"-", "200", "401"} )
    => (Len(call[c].sent) = 1 /\ call[c].pc = "done")

\* C7 (as claimed): a failed invite's error text falls in the already-exists
\* category for 409 and for 400 with 'already exists' / 'already invited',
\* in another category for any other 400, in the authentication-failure
\* category for 401, and otherwise is generic and carries status and message.
C7_InviteErrorClassification ==
  \A c \in Callers :
    ( /\ call[c].pc = "done" /\ call[c].op = "invite"
      /\ ~call[c].success /\ ~call[c].authThrew )
    => LET f == call[c].lastErr
           text == call[c].error
           already == \/ f.status = "409"
                      \/ /\ f.status = "400"
                         /\ \/ Includes(f.message, <<"already", "exists">>)
                            \/ Includes(f.message, <<"already", "invited">>)
       IN  /\ already => ErrorCategory(text) = "already-exists"
           /\ (f.status = "400" /\ ~already) => ErrorCategory(text) # "already-exists"
           /\ f.status = "401" => ErrorCategory(text) = "authentication-failure"
           /\ (~already /\ f.status \notin {"400", "401"}) =>
                /\ ErrorCategory(text) = "generic"
                /\ Includes(text, <<f.status>>)
                /\ Includes(text, f.message)

\* C8: invite and delete never raise: a finished invite has not thrown and,
\* unless it succeeded, carries success = false with an error text, whatever
\* failed (credential call, HTTP status, transport); a finished delete has
\* not thrown and returns false on any failure; a failed list has thrown.
C8_InviteDeleteNeverRaise ==
  \A c \in Callers :
    call[c].pc = "done" =>
      /\ call[c].op = "invite" =>
           /\ ~call[c].threw
           /\ (call[c].success \/ call[c].error # <<>>)
           /\ (call[c].authThrew => ~call[c].success)
      /\ call[c].op = "delete" =>
           /\ ~call[c].threw
           /\ ((call[c].authThrew \/ call[c].lastErr # NoError) => ~call[c].success)
      /\ call[c].op = "list" =>
           (call[c].threw <=> ~call[c].success)

\* C8 witness: an invite whose credential call failed has returned a result,
\* and (in another run) so has one whose request met a transport failure.
C8_Witness ==
  \E c \in Callers :
    /\ call[c].pc = "done" /\ call[c].op = "invite"
    /\ call[c].authThrew /\ call[c].authOutcome = "transport"
    /\ ~call[c].success /\ call[c].error = NetworkError

----------------------------------------------------------------------------
(* Claims C9 - C10: Provisioning Workflow *)

\* The network calls of an invocation, in order, by name.
Apis(r) == [i \in 1..Len(r.events) |-> r.events[i].api]

VaultApis == {"findByEmail", "invite", "reinvite"}

\* C9: in every invocation of a provisioning command, whichever the entry
\* point, every vault API call (findByEmail, invite, reinvite) comes after
\* the directory lookup, and an invocation for an email the directory has
\* no entry for makes no vault API call at all.
C9_LookupPrecedesVaultCalls ==
  \A c \in Callers :
    LET ev == cmd[c].events
    IN  /\ \A i \in 1..Len(ev) :
             ev[i].api \in VaultApis => \E j \in 1..(i - 1) : ev[j].api = "lookup"
        /\ (cmd[c].email \in Emails /\ ~directory[cmd[c].email]) =>
             \A i \in 1..Len(ev) : ev[i].api \notin VaultApis

\* C10: when the directory has the email and findByEmail returned a member
\* with status Invited (0) or Accepted (1), the invite command calls
\* reinvite exactly once, for that member's organization-member id, never
\* calls invite, and the reply it sends is 'Invitation Resent' when reinvite
\* succeeded and the mapped error when it failed; a delivered reply is the
\* only one.
C10_ReinviteForInvitedOrAccepted ==
  \A c \in Callers :
    LET r == cmd[c]
    IN  (r.name = "invite" /\ r.found /\ r.existing \in {"0", "1"}) =>
          /\ r.pc \in {"reinvite_wait", "done"}
          /\ Apis(r) = <<"lookup", "findByEmail", "reinvite">>
          /\ r.events[3].arg = MemberId(r.email)
          /\ r.pc = "done" =>
               /\ Len(r.reinvite) = 1 /\ r.replies # <<>>
               /\ LET res == r.reinvite[1]
                      first == r.replies[1]
                  IN  /\ res.success =>
                           first.title = "Invitation Resent"
                      /\ ~res.success =>
                           /\ first.title = MapErrorToUserMessage(res.error).title
                           /\ first.description = MapErrorToUserMessage(res.error).description
                           /\ first.title \in {"Account Setup Required", "Error!",
                                               "Something Went Wrong"}
                           /\ first.title = "Error!" => first.description = res.error
                      /\ first.delivered => Len(r.replies) = 1

\* C10 witness: the member is Accepted (1), reinvite succeeded and the
\* command has replied 'Invitation Resent'.
C10_Witness ==
  \E c \in Callers :
    /\ cmd[c].name = "invite" /\ cmd[c].pc = "done"
    /\ cmd[c].found /\ cmd[c].existing = "1"
    /\ cmd[c].reinvite = << [success |-> TRUE, error |-> <<>>] >>
    /\ Len(cmd[c].replies) = 1
    /\ cmd[c].replies[1].title = "Invitation Resent" /\ cmd[c].replies[1].delivered

----------------------------------------------------------------------------
(* Claims C11 - C20 *)

\* C11: when findByEmail returned a member with status Confirmed (2), the
\* invite command makes no mutating vault call (its only calls are the
\* directory lookup and findByEmail), the invocation is over, and the reply
\* it sent is the informational 'Already Confirmed'.
C11_ConfirmedIsTerminal ==
  \A c \in Callers :
    LET r == cmd[c]
    IN  (r.name = "invite" /\ r.existing = "2") =>
          /\ r.pc = "done"
          /\ r.events = << Event("lookup", r.email), Event("findByEmail", r.email) >>
          /\ r.reinvite = <<>>
          /\ call[c].pc = "idle"
          /\ r.replies # <<>>
          /\ r.replies[1].title = "Already Confirmed"
          /\ r.replies[1].delivered => Len(r.replies) = 1

\* C11 witness: a Confirmed member asked for an invitation and was told
\* 'Already Confirmed'.
C11_Witness ==
  \E c \in Callers :
    /\ cmd[c].name = "invite" /\ cmd[c].pc = "done"
    /\ cmd[c].existing = "2" /\ vault[cmd[c].email] = "2"
    /\ cmd[c].replies = << Embed("Already Confirmed", <<>>, TRUE) >>

\* The calls of one kind an invocation made.
Calls(r, api) == {i \in 1..Len(r.events) : r.events[i].api = api}

C13_InviteCarriesResolvedGrants ==
  \A c \in Callers :
    LET r == cmd[c]
    IN  ( /\ r.name = "invite" /\ r.found /\ r.existing = "none"
          /\ r.replies # <<>> /\ r.replies[1].title = "Invitation Sent" ) =>
            /\ r.replies[1].description = GetCollectionNamesForRole(RoleKey(r.email))
            /\ r.carried = GetCollectionNamesForRole(RoleKey(r.email))

\* The collections a resolution names.
Named(names) == {names[i] : i \in 1..Len(names)}

\* C14: for every role the directory can hand to the resolver, the resolved
\* set contains the baseline collection, and for a role that is no key of
\* the policy table, neither as written nor lower-cased, it is exactly the
\* baseline; the same is true of the collections every 'Invitation Sent' or
\* 'Invitation Resent' reply names.
C14_BaselineAlwaysGranted ==
  /\ \A e \in Emails :
       LET role == RoleKey(e)
           names == GetCollectionNamesForRole(role)
       IN  /\ Baseline \in Named(names)
           /\ (role \notin PolicyKeys /\ LowerWord(role) \notin PolicyKeys) =>
                names = <<Baseline>>
  /\ \A c \in Callers :
       \A i \in 1..Len(cmd[c].replies) :
         (cmd[c].name = "invite"
            /\ cmd[c].replies[i].title \in {"Invitation Sent", "Invitation Resent"}) =>
           /\ Baseline \in Named(cmd[c].replies[i].description)
           /\ (team[cmd[c].email] = "Marketing") =>
                cmd[c].replies[i].description = <<Baseline>>

\* C14 witness: a member of a team the policy table does not know was
\* invited and told of the baseline collection alone, and (in another run)
\* a member of a known team was told of the team's collection and the
\* baseline.
C14_Witness ==
  \E c \in Callers :
    /\ cmd[c].name = "invite" /\ cmd[c].pc = "done"
    /\ cmd[c].email \in Emails /\ team[cmd[c].email] = "Marketing"
    /\ "Marketing" \notin PolicyKeys /\ LowerWord("Marketing") \notin PolicyKeys
    /\ cmd[c].replies = << Embed("Invitation Sent", <<Baseline>>, TRUE) >>

\* C15: a confirm command whose findByEmail returned a member already
\* Confirmed (2) makes no further vault call (no public-key fetch, no
\* confirm, no reinvite), is over, and replied the informational 'Already
\* Confirmed'.
C15_ConfirmOfConfirmedIsNoOp ==
  \A c \in Callers :
    LET r == cmd[c]
    IN  (r.name \in ConfirmCommands /\ r.existing = "2") =>
          /\ r.pc = "done"
          /\ r.events = << Event("findByEmail", r.email) >>
          /\ r.key = "-"
          /\ r.replies # <<>>
          /\ r.replies[1].title = "Already Confirmed"
          /\ r.replies[1].delivered => Len(r.replies) = 1

\* C15 witness: both revisions of the command have answered 'Already
\* Confirmed' for a Confirmed member; here /confirm vault.
C15_Witness ==
  \E c \in Callers :
    /\ cmd[c].name = "confirm" /\ cmd[c].pc = "done" /\ cmd[c].existing = "2"
    /\ vault[cmd[c].email] = "2"
    /\ cmd[c].replies = << Embed("Already Confirmed", <<>>, TRUE) >>

\* C16: in every invocation of a confirm command, a confirm call is
\* preceded by a successful public-key fetch for the same user, and an
\* invocation whose public-key fetch found no key replies 'Public Key Not
\* Available' and makes no confirm call.
C16_ConfirmNeedsPublicKey ==
  \A c \in Callers :
    LET r == cmd[c]
    IN  r.name \in ConfirmCommands =>
          /\ \A i \in 1..Len(r.events) :
               r.events[i].api = "confirm" =>
                 /\ r.key = "key"
                 /\ \E j \in 1..(i - 1) : r.events[j] = Event("publicKey", UserId(r.email))
          /\ r.key = "null" =>
               /\ Calls(r, "confirm") = {}
               /\ r.replies # <<>> /\ r.replies[1].title = "Public Key Not Available"

\* C17: every confirm call sent to the vault belongs to an invocation of a
\* confirm command, for the member with that command's email; no job
\* started by a timer makes one.
C17_ConfirmOnlyByOperator ==
  \A c \in Callers :
    /\ \A i \in 1..Len(cmd[c].events) :
         cmd[c].events[i].api = "confirm" =>
           /\ cmd[c].name \in ConfirmCommands
           /\ cmd[c].events[i].arg = <<MemberId(cmd[c].email), UserId(cmd[c].email)>>
    /\ (call[c].op = "confirm" /\ call[c].sent # <<>>) => cmd[c].name \in ConfirmCommands

\* C18: a confirm command whose findByEmail found no member replies the
\* informational 'User Not Found', not a failure, makes no public-key fetch
\* and no mutating vault call, and is over.
C18_ConfirmLookupMissIsInformational ==
  \A c \in Callers :
    LET r == cmd[c]
    IN  (r.name \in ConfirmCommands /\ r.existing = "none") =>
          /\ r.pc = "done"
          /\ r.events = << Event("findByEmail", r.email) >>
          /\ r.key = "-"
          /\ r.replies # <<>>
          /\ r.replies[1].title = "User Not Found"
          /\ r.replies[1].title \notin {"Confirmation Failed", "Something Went Wrong"}
          /\ r.replies[1].delivered => Len(r.replies) = 1

\* C18 witness: the vault has no member for the email and the operator was
\* told 'User Not Found'.
C18_Witness ==
  \E c \in Callers :
    /\ cmd[c].name \in ConfirmCommands /\ cmd[c].pc = "done"
    /\ cmd[c].existing = "none" /\ vault[cmd[c].email] = "none"
    /\ cmd[c].replies = << Embed("User Not Found", <<>>, TRUE) >>

\* C19: in a cleanup run every user with no password set and created more
\* than 7 days before the run's now is classified for deletion with the
\* reason of rule 1, whatever its enabled flag and last-active time are, also
\* when rule 2 or rule 3 matches too, and the delete call for it follows.
C19_NeverActivatedWins ==
  \A c \in Callers :
    LET r == cmd[c]
    IN  r.name = "cleanup_job" =>
          \A i \in 1..Len(r.events) :
            r.events[i].api = "verdict" =>
              LET p == profile[r.events[i].arg[1]]
              IN  ( /\ p.passwordHash # "set"
                    /\ p.createdAt.known
                    /\ p.createdAt.at < r.at - 7 * DayMinutes ) =>
                      /\ r.events[i].arg[2] = "Never set password after 7 days"
                      /\ Len(r.events) > i
                      /\ r.events[i + 1].api = "delete"
                      /\ r.events[i + 1].arg = r.events[i].arg[1]

\* C19 witness: a user created 10 days ago without a password, enabled and
\* last active 95 days ago (rule 3 matches too), was classified by rule 1.
C19_Witness ==
  \E c \in Callers, e \in Emails :
    /\ cmd[c].name = "cleanup_job"
    /\ profile[e].passwordHash = "empty" /\ profile[e].createdAt = DaysAgo(10)
    /\ profile[e].userEnabled = "true" /\ profile[e].lastActive = DaysAgo(95)
    /\ Apis(cmd[c]) = <<"verdict", "delete">>
    /\ cmd[c].events[1].arg = <<e, "Never set password after 7 days">>
    /\ cmd[c].events[2].arg = e

\* C20: in a cleanup run the delete call is made for a user if and only if,
\* at the run's now, the user has no password and was created more than 7
\* days ago, or is disabled and was last active more than 30 days ago, or
\* was last active more than 90 days ago; every delete call follows the
\* classification of its user.
C20_DeleteIffPolicy ==
  \A c \in Callers :
    LET r == cmd[c]
        Before(d, days) == d.known /\ d.at < r.at - days * DayMinutes
        Policy(p) == \/ p.passwordHash # "set" /\ Before(p.createdAt, 7)
                     \/ p.userEnabled = "false" /\ Before(p.lastActive, 30)
                     \/ Before(p.lastActive, 90)
    IN  r.name = "cleanup_job" =>
          \A i \in 1..Len(r.events) :
            /\ r.events[i].api = "verdict" =>
                 ( Policy(profile[r.events[i].arg[1]])
                     <=> ( /\ Len(r.events) > i
                           /\ r.events[i + 1].api = "delete"
                           /\ r.events[i + 1].arg = r.events[i].arg[1] ) )
            /\ r.events[i].api = "delete" =>
                 /\ i > 1
                 /\ r.events[i - 1].api = "verdict"
                 /\ r.events[i - 1].arg[1] = r.events[i].arg

\* C20 witness: an enabled user with a password, last active 95 days ago,
\* was deleted for inactivity, and the vault no longer has the account.
C20_Witness ==
  \E c \in Callers, e \in Emails :
    /\ cmd[c].name = "cleanup_job" /\ cmd[c].pc = "done"
    /\ profile[e].passwordHash = "set" /\ profile[e].userEnabled = "true"
    /\ profile[e].lastActive = DaysAgo(95)
    /\ Apis(cmd[c]) = <<"verdict", "delete", "returned", "pause">>
    /\ cmd[c].events[1].arg = <<e, "No activity for 90+ days">>
    /\ cmd[c].events[2].arg = e
    /\ cmd[c].events[3].arg = TRUE
    /\ vault[e] = "none"

----------------------------------------------------------------------------
(* Claims C21 - C30 *)

\* The positions of a run's events that carry the given name.
At(r, api) == {i \in 1..Len(r.events) : r.events[i].api = api}

\* The listed users the retention rules match at the run's now.
Matching(r) ==
  {e \in r.allUsers : profile[e].datesValid /\ RetentionVerdict(profile[e], r.at) # Keep}

\* C21: a cleanup run that is over, listed n >= 1 users of which k match a
\* retention rule, raised for none of them, and whose delete calls all
\* returned true, made exactly
\* one delete call per matching user and no other, and its result has
\* totalUsers = n, deleted = k and no errors.
C21_RunSummary ==
  \A c \in Callers :
    LET r == cmd[c]
    IN  ( /\ r.name = "cleanup_job" /\ r.pc = "done"
          /\ r.allUsers # {}
          /\ At(r, "threw") = {}
          /\ \A i \in At(r, "returned") : r.events[i].arg = TRUE ) =>
            /\ Cardinality(At(r, "delete")) = Cardinality(Matching(r))
            /\ \A e \in Matching(r) : \E i \in At(r, "delete") : r.events[i].arg = e
            /\ r.result.totalUsers = Cardinality(r.allUsers)
            /\ r.result.deleted = Cardinality(Matching(r))
            /\ r.result.errors = <<>>

\* C21 witness: a run over three users of which two matched is over with
\* two delete calls, both successful.
C21_Witness ==
  \E c \in Callers :
    /\ cmd[c].name = "cleanup_job" /\ cmd[c].pc = "done"
    /\ Cardinality(cmd[c].allUsers) = 3
    /\ Cardinality(Matching(cmd[c])) = 2
    /\ Cardinality(At(cmd[c], "delete")) = 2
    /\ \A i \in At(cmd[c], "returned") : cmd[c].events[i].arg = TRUE
    /\ cmd[c].result.totalUsers = 3 /\ cmd[c].result.deleted = 2

\* The milliseconds of delay strictly between two positions of a run.
RECURSIVE Waited(_, _, _)
Waited(r, i, j) ==
  IF i + 1 >= j THEN 0
  ELSE (IF r.events[i + 1].api = "pause" THEN r.events[i + 1].arg ELSE 0)
         + Waited(r, i + 1, j)

\* C22: in a cleanup run, between a delete call and the next delete call
\* the first one has returned and at least 500 ms of delay have elapsed
\* after its return, whether it succeeded or failed.
C22_DeletesArePaced ==
  \A c \in Callers :
    LET r == cmd[c]
    IN  r.name = "cleanup_job" =>
          \A i, j \in At(r, "delete") :
            i < j =>
              /\ r.events[i + 1].api = "returned"
              /\ Waited(r, i + 1, j) >= 500

\* C22 witness: a delete call failed and a second delete call was issued
\* after the delay.
C22_Witness ==
  \E c \in Callers :
    /\ cmd[c].name = "cleanup_job"
    /\ Apis(cmd[c]) = <<"verdict", "delete", "returned", "pause", "verdict", "delete">>
    /\ cmd[c].events[3].arg = FALSE

\* C23: in a cleanup run, a delete call that returned false leaves an
\* error naming its user in the result, the deleted counter equals the
\* number of delete calls that returned true, and the run is only over once
\* no listed user is left: every listed user has been classified (or its
\* own record made the loop body raise), and a delete call has been made
\* for every classified one that matches a rule.
C23_FailedDeleteIsNotFatal ==
  \A c \in Callers :
    LET r == cmd[c]
    IN  ( /\ r.name = "cleanup_job"
          /\ \E i \in At(r, "returned") : r.events[i].arg = FALSE ) =>
            /\ \A i \in At(r, "returned") :
                 r.events[i].arg = FALSE =>
                   \E k \in 1..Len(r.result.errors) :
                     r.result.errors[k] = FailedToDelete(r.events[i - 1].arg)
            /\ r.result.deleted =
                 Cardinality({i \in At(r, "returned") : r.events[i].arg = TRUE})
            /\ r.pc = "done" =>
                 /\ r.pending = {}
                 /\ \A e \in r.allUsers :
                      \/ \E i \in At(r, "verdict") : r.events[i].arg[1] = e
                      \/ \E i \in At(r, "threw") : r.events[i].arg = e
                 /\ \A e \in Matching(r) :
                      profile[e].datesValid =>
                        \E i \in At(r, "delete") : r.events[i].arg = e

\* C23 witness: the delete of the first user failed, and the run went on
\* to delete the second user and finished.
C23_Witness ==
  \E c \in Callers :
    /\ cmd[c].name = "cleanup_job" /\ cmd[c].pc = "done"
    /\ Apis(cmd[c]) = <<"verdict", "delete", "returned", "pause",
                        "verdict", "delete", "returned", "pause">>
    /\ cmd[c].events[3].arg = FALSE /\ cmd[c].events[7].arg = TRUE
    /\ cmd[c].result.deleted = 1
    /\ cmd[c].result.errors = << FailedToDelete(cmd[c].events[2].arg) >>

\* An execution of cleanupInactiveUsers is in progress.
Running(c) == cmd[c].name = "cleanup_job" /\ cmd[c].pc # "done"

\* C24: two executions of the cleanup are never in progress at once: a
\* run started by hand or by the schedule while another one is executing
\* does not begin until that one is over.
C24_CleanupNeverOverlaps ==
  ~(Running("A") /\ Running("B"))

\* The cached credential and the cached expiry belong to one exchange.
CachePaired ==
  /\ cachedToken # NoCred =>
       tokenExpiry = TokenExpiryOf(cachedToken.at, cachedToken.ttl)
  /\ Len(adminCookies) > 0 =>
       cookieExpiry = CookieExpiryOf(adminCookies[1].at)

\* The caller's credential call went through the exchange and succeeded.
Exchanged(c) ==
  call[c].pc \in {"req_wait", "done"} /\ ~call[c].hit /\ ~call[c].authThrew

\* C25: every exchange that completes with success hands its caller the
\* credential of its own response and writes that credential and its
\* expiry to the cache, whatever another caller's exchange, in flight at
\* the same time, has written before: the cache holds the token and the
\* expiry of the exchange that completed last, and in every state the
\* cached token and the cached expiry come from one response.
C25_ConcurrentRefresh ==
  [][ /\ CachePaired'
      /\ \A c \in Callers :
           /\ Exchanged(c)' => call'[c].cred # NoCred /\ call'[c].cred.by = c
           /\ (call[c].pc = "auth_wait" /\ call'[c].pc = "req_wait") =>
                /\ call'[c].cred.at = now
                /\ IF flavour = "oauth"
                     THEN /\ cachedToken' = call'[c].cred
                          /\ tokenExpiry' = TokenExpiryOf(now, call'[c].cred.ttl)
                     ELSE /\ adminCookies' = << call'[c].cred >>
                          /\ cookieExpiry' = CookieExpiryOf(now) ]_vars

\* C25 witness: A and B both found the token cache empty and both
\* exchanged, B's call began before A's exchange completed and B's exchange
\* completed after it with another lifetime; the cache holds B's token.
C25_Witness ==
  /\ flavour = "oauth"
  /\ Exchanged("A") /\ Exchanged("B")
  /\ call["B"].calledAt < call["A"].cred.at
  /\ call["A"].cred.at < call["B"].cred.at
  /\ call["A"].cred.ttl # call["B"].cred.ttl
  /\ cachedToken = call["B"].cred
  /\ tokenExpiry = TokenExpiryOf(call["B"].cred.at, call["B"].cred.ttl)

\* C26: a command invocation that has ended and whose reply calls
\* (deferReply, reply, editReply) all succeeded sent exactly one reply to
\* the operator and ended inside the command: so does every invocation
\* that ends in a failure, be it an error result or an exception.
C26_ExactlyOneReply ==
  \A c \in Callers :
    LET r == cmd[c]
    IN  ( /\ r.name \in Commands
          /\ r.pc \in Over
          /\ r.deferred # "failed"
          /\ \A i \in 1..Len(r.replies) : r.replies[i].delivered ) =>
            /\ Len(r.replies) = 1
            /\ r.pc = "done"

\* C26 witness: getUserByEmail raised in the invite command, and the
\* operator got the one crash embed.
C26_Witness ==
  \E c \in Callers :
    /\ cmd[c].name = "invite" /\ cmd[c].pc = "done" /\ cmd[c].deferred = "ok"
    /\ Apis(cmd[c]) = <<"lookup", "findByEmail">>
    /\ Len(cmd[c].replies) = 1
    /\ cmd[c].replies[1].title = "Something Went Wrong"
    /\ cmd[c].replies[1].delivered

\* C27: no invocation ends with the error of a failed reply call leaving
\* the interaction handler.
C27_FailingReplyNeverEscapes ==
  \A c \in Callers : cmd[c].pc # "unhandled"

\* The fixed description for the one error text that is mapped.
AccountSetupDescription ==
  MapErrorToUserMessage(<<"user", "in", "invalid", "state">>).description

\* C28: apart from the embeds that name the granted collections, every
\* embed a command shows carries a fixed text: the generic 'contact the
\* projects team' description, or the description of the mapped 'user in
\* invalid state' error, never the text of the error itself.
C28_UnmappedErrorsAreGeneric ==
  \A c \in Callers :
    cmd[c].name \in Commands =>
      \A i \in 1..Len(cmd[c].replies) :
        cmd[c].replies[i].title \notin {"Invitation Sent", "Invitation Resent"} =>
          cmd[c].replies[i].description
            \in {<<>>, GenericDescription, AccountSetupDescription}

\* The order of the statuses of a membership.
StatusRank(s) ==
  CASE s = "0" -> 0
    [] s = "1" -> 1
    [] s = "2" -> 2
    [] OTHER -> -1

C30_ListSeesEveryMember ==
  \A c \in Callers :
    ( call[c].op = "list" /\ call[c].pc = "done" /\ ~call[c].threw ) =>
      \A e \in Accounts : call[c].listing[e] = vault[e]

----------------------------------------------------------------------------
(* Claims C31 - C39 *)

\* C31: two invocations of the invite command for one address never both
\* have an invite call in flight: the one that comes second finds the
\* member and reinvites.
C31_AtMostOneInvites ==
  ~( /\ cmd["A"].name = "invite" /\ cmd["B"].name = "invite"
     /\ cmd["A"].email = cmd["B"].email
     /\ cmd["A"].pc = "invite_wait" /\ cmd["B"].pc = "invite_wait" )

\* C32: the step in which a caller's request is answered leaves the
\* cached cookies and their expiry alone whenever the cache holds valid
\* cookies other than the ones that request was sent with, that is, cookies
\* another caller stored after this caller had read its own.
C32_StaleUnauthorizedKeepsNewer ==
  [][ \A c \in Callers :
        ( /\ call[c].pc = "req_wait" /\ call'[c].pc # "req_wait"
          /\ CookiesValid
          /\ adminCookies[1] # call[c].cred ) =>
            /\ adminCookies' = adminCookies
            /\ cookieExpiry' = cookieExpiry ]_vars

\* C33: at no minute of the week do the business-hours schedule and the
\* two-hourly schedule both start processPendingConfirmations.
C33_SchedulesNeverCoincide ==
  ~( cmd["A"].name = "confirm_job" /\ cmd["B"].name = "confirm_job" )

\* The errors of a run that carry the given text.
ErrorsOf(r, text) == {k \in 1..Len(r.result.errors) : r.result.errors[k][1] = text}

\* C34: when a cleanup run that obtained the list is over, activeUsers +
\* inactiveUsers is totalUsers less the users whose processing raised,
\* deleted is at most inactiveUsers, and inactiveUsers is deleted plus the
\* number of 'Failed to delete' errors.
C34_CountersConsistent ==
  \A c \in Callers :
    LET r == cmd[c]
    IN  ( r.name = "cleanup_job" /\ r.pc = "done" /\ r.allUsers # {} ) =>
          /\ r.result.activeUsers + r.result.inactiveUsers
               = r.result.totalUsers - Cardinality(At(r, "threw"))
          /\ r.result.deleted <= r.result.inactiveUsers
          /\ r.result.inactiveUsers
               = r.result.deleted + Cardinality(ErrorsOf(r, "Failed to delete"))

\* C34 witness: a run over three users is over; one was kept, for one the
\* delete failed, and the processing of one raised.
C34_Witness ==
  \E c \in Callers :
    /\ cmd[c].name = "cleanup_job" /\ cmd[c].pc = "done"
    /\ cmd[c].result.totalUsers = 3
    /\ cmd[c].result.activeUsers = 1 /\ cmd[c].result.inactiveUsers = 1
    /\ cmd[c].result.deleted = 0
    /\ Cardinality(At(cmd[c], "threw")) = 1
    /\ Cardinality(ErrorsOf(cmd[c], "Failed to delete")) = 1

\* C35: a cleanup run keeps, and makes no delete call for, every user
\* whose record has neither a creation date nor a last-active date,
\* whatever its password and enabled flags, and every user with a password
\* set and no last-active date, whenever it was created.
C35_MissingDatesAreKept ==
  \A c \in Callers :
    LET r == cmd[c]
    IN  r.name = "cleanup_job" =>
          \A i \in At(r, "verdict") :
            LET e == r.events[i].arg[1]
                p == profile[e]
            IN  ( \/ ~p.createdAt.known /\ ~p.lastActive.known
                  \/ p.passwordHash = "set" /\ ~p.lastActive.known ) =>
                    /\ r.events[i].arg[2] = Keep
                    /\ \A j \in At(r, "delete") : r.events[j].arg # e

\* C35 witness: a disabled user without a password and without either
\* date was classified and kept; the run is over and the account exists.
C35_Witness ==
  \E c \in Callers, e \in Emails :
    /\ cmd[c].name = "cleanup_job" /\ cmd[c].pc = "done"
    /\ profile[e].createdAt = NoDate /\ profile[e].lastActive = NoDate
    /\ profile[e].passwordHash = "absent" /\ profile[e].userEnabled = "false"
    /\ Apis(cmd[c]) = <<"verdict", "pause">>
    /\ cmd[c].events[1].arg = <<e, Keep>>
    /\ vault[e] # "none"

\* The result of a run that has counted nothing.
ZeroResult ==
  [totalUsers |-> 0, activeUsers |-> 0, inactiveUsers |-> 0, deleted |-> 0, errors |-> <<>>]

\* C36: when getAllVaultwardenUsers raises at the start of a cleanup run,
\* the run returns: its result has totalUsers 0, deleted 0 and the one
\* error that describes the failure, and no delete call was made.
C36_ListFailureIsReported ==
  [][ \A c \in Callers :
        ( /\ cmd[c].name = "cleanup_job" /\ cmd[c].pc = "users_wait"
          /\ call[c].pc = "done" /\ call[c].threw
          /\ cmd'[c] # cmd[c] ) =>
            /\ cmd'[c].pc = "done"
            /\ cmd'[c].result = [ZeroResult EXCEPT !.errors = <<CleanupProcessError>>]
            /\ At(cmd'[c], "delete") = {} ]_vars

\* C36 witness: a run is over with nothing counted and the one error of
\* the failed listing.
C36_Witness ==
  \E c \in Callers :
    /\ cmd[c].name = "cleanup_job" /\ cmd[c].pc = "done"
    /\ cmd[c].events = <<>>
    /\ cmd[c].result = [ZeroResult EXCEPT !.errors = <<CleanupProcessError>>]

\* C37: an invite command whose findByEmail returned a member with a
\* status other than Invited (0), Accepted (1) and Confirmed (2), such as
\* Revoked (-1), goes on to a fresh invite call for the email: it makes no
\* reinvite call and sends no 'Already Confirmed' reply.
C37_OtherStatusInvitesAfresh ==
  \A c \in Callers :
    LET r == cmd[c]
    IN  ( r.name = "invite" /\ r.existing \notin {"-", "none", "0", "1", "2"} ) =>
          /\ Apis(r) = <<"lookup", "findByEmail", "invite">>
          /\ r.events[3].arg = r.email
          /\ \A i \in 1..Len(r.replies) : r.replies[i].title # "Already Confirmed"

\* C37 witness: the command found a Revoked member, called invite, and
\* has replied with what the vault answered.
C37_Witness ==
  \E c \in Callers :
    /\ cmd[c].name = "invite" /\ cmd[c].pc = "done"
    /\ cmd[c].existing = "-1" /\ vault[cmd[c].email] = "-1"
    /\ Apis(cmd[c]) = <<"lookup", "findByEmail", "invite">>
    /\ Len(cmd[c].replies) = 1 /\ cmd[c].replies[1].delivered

\* C38: the directory lookup never raises; when its request fails, the
\* invite command does what it does when the directory has no entry: it
\* replies 'Email Not Found' first and makes no vault call, and no error
\* escapes the command.
C38_OutageIsHandledAsMiss ==
  \A c \in Callers :
    LET r == cmd[c]
    IN  ( r.name = "invite" /\ r.lookup \in {"error", "none"} ) =>
          /\ ~r.found
          /\ Apis(r) = <<"lookup">>
          /\ call[c] = Idle
          /\ r.pc = "done"
          /\ r.replies # <<>> /\ r.replies[1].title = "Email Not Found"

\* C38 witness: the directory has an entry for the email, the lookup
\* request failed, and the invite command has replied 'Email Not Found'
\* with nothing done in the vault.
C38_Witness ==
  \E c \in Callers :
    /\ cmd[c].name = "invite" /\ cmd[c].pc = "done"
    /\ cmd[c].email \in Emails /\ directory[cmd[c].email]
    /\ cmd[c].lookup = "error"
    /\ Apis(cmd[c]) = <<"lookup">>
    /\ Len(cmd[c].replies) = 1 /\ cmd[c].replies[1].title = "Email Not Found"
    /\ cmd[c].replies[1].delivered
    /\ vault[cmd[c].email] = "none"

\* The events of a run that take user e from the list: its classification,
\* or the exception its record raised before it.
Taken(r, e) ==
  {i \in 1..Len(r.events) :
     \/ r.events[i].api = "verdict" /\ r.events[i].arg[1] = e
     \/ r.events[i].api = "threw" /\ r.events[i].arg = e}

Classified(r, e) ==
  {i \in At(r, "verdict") : r.events[i].arg[1] = e}

Deletes(r, e) ==
  {i \in At(r, "delete") : r.events[i].arg = e}

SinglePass ==
  \A c \in Callers :
    LET r == cmd[c]
    IN  r.name = "cleanup_job" =>
          \A e \in Accounts :
            /\ Cardinality(Taken(r, e)) <= 1
            /\ Cardinality(Deletes(r, e)) <= 1
            /\ (e \notin r.allUsers) => Taken(r, e) = {} /\ Deletes(r, e) = {}
            /\ (~profile[e].datesValid) => Classified(r, e) = {}
            /\ (r.pc = "done" /\ e \in r.allUsers) =>
                 /\ Cardinality(Taken(r, e)) = 1
                 /\ profile[e].datesValid => Cardinality(Classified(r, e)) = 1

====
